---------------------------- MODULE Spec2Model ----------------------------
(***************************************************************************)
(* A model of the YouTube strategy dashboard (kilshim/youtubestrategy).     *)
(*                                                                         *)
(* Part I   : JavaScript helpers the code relies on (parseInt, x || d,      *)
(*            Math.round, Math.max, Array.prototype.sort).                 *)
(* Part II  : the popularity scorer and the two views' processedVideos.     *)
(* Part III : the rising-channel aggregator findRisingChannels, one step    *)
(*            per awaited remote call.                                      *)
(*                                                                         *)
(* Numbers.  JavaScript numbers that may be NaN are records                 *)
(* [nan, val].  The popularity score is computed as the engine computes    *)
(* it, in IEEE-754 doubles ([neg, bits, exp], rounded to 53 digits after    *)
(* every operation).  The score of a rising channel is only compared, so    *)
(* its quotient is kept exact as [num, den] with den > 0, which orders as   *)
(* the doubles do.  Instants are whole minutes since the epoch.             *)
(* Strings that the code parses are sequences of one-character strings.    *)
(***************************************************************************)
EXTENDS Integers, Sequences, FiniteSets, TLC

VARIABLES
    \* ---- findRisingChannels (one invocation) ----
    pc,                     \* where the invocation is suspended
    period,                 \* argument `period`
    channelCreationCutoff,  \* the instant computed at lines 151-174
    searchItems,            \* searchData.items as received
    videoMap,               \* Map<ChannelId, VideoId>, entries in insertion order
    channelIds,             \* Array.from(channelIdsSet).slice(0, 40)
    chItems,                \* chData.items as received
    videoDetails,           \* what getVideoDetails resolved to
    risingChannels,         \* the value the invocation resolves to
    calls,                  \* the remote calls issued so far, oldest first
    \* ---- popularity scoring in the two views ----
    input,                  \* the fetched collection handed to a view
    chVideos,               \* ChannelAnalysis: state `videos`
    chProcessed,            \* ChannelAnalysis: memo `processedVideos`
    kwVideos,               \* KeywordAnalysis: state `videos`
    kwVideoType,            \* KeywordAnalysis: state `videoType`
    kwSortOption,           \* KeywordAnalysis: state `sortOption`
    kwProcessed,            \* KeywordAnalysis: memo `processedVideos`
    \* ---- the views' list controls ----
    activeTab,              \* App: state `activeTab` (the one mounted view)
    chChannel,              \* ChannelAnalysis: state `channel` ("null" or its id)
    chSortOption,           \* ChannelAnalysis: state `sortOption`
    chFilterOption,         \* ChannelAnalysis: state `filterOption`
    chDisplayCount,         \* ChannelAnalysis: state `displayCount`
    chSorted,               \* ChannelAnalysis: memo `sortedVideos`
    chDisplay,              \* ChannelAnalysis: `displayVideos`
    kwDisplayCount,         \* KeywordAnalysis: state `displayCount`
    kwDisplay,              \* KeywordAnalysis: `displayVideos`
    \* ---- utils.ts and the short-form classifiers, applied to one input ----
    durInput,               \* the argument `duration`
    durResult,              \* <<n>> once parseDuration returned n, <<>> before
    durVerdicts,            \* <<r>> once the classifiers ran, <<>> before
    csvData,                \* downloadCSV: the argument `data`
    csvFile,                \* <<text>> once a file was downloaded, <<>> before
    csvRead,                \* <<r>> once a CSV reader read the file, <<>> before
    \* ---- handleSearch of a view (the invocation that is followed) ----
    wfPc,                   \* where handleSearch is suspended
    loading,                \* state `loading`
    analyzing,              \* state `analyzing`
    report,                 \* state `report`: <<>> for null, <<r>> otherwise
    opChannels,             \* OpportunityFinder: state `channels`
    hasSearched,            \* OpportunityFinder: state `hasSearched`
    alerts,                 \* the alert() notices of this invocation
    errorLog,               \* the console.error() lines of this invocation
    aiCalls,                \* the analyze* calls of this invocation
    aiSettled,              \* <<outcome>> once the analyze* call settled, <<>> before
    remote,                 \* the replies the data fetches of this invocation got
    detached,               \* the view that called this invocation is unmounted
    overtaken,              \* the invocations in flight beside the one followed
    \* ---- utils.ts: encryptKey and decryptKey, applied to one key ----
    keyInput,               \* the argument `key`, as UTF-16 code units
    keyCipher,              \* <<c>> once encryptKey returned c, <<>> before
    keyPlain,               \* <<k>> once decryptKey returned k, <<>> before
    \* ---- App and ApiKeyModal ----
    mounted,                \* App's mount effect (lines 26-34) has run
    apiKey,                 \* App: state `apiKey`, as UTF-16 code units
    isKeyModalOpen,         \* App: state `isKeyModalOpen`
    autoSearchChannel,      \* App: state `autoSearchChannel`: <<>> for null
    localStorage,           \* item name -> <<>> when absent, else <<text>>
    ytKey,                  \* ApiKeyModal: state `ytKey`
    ytStatus,               \* ApiKeyModal: state `ytStatus`
    ytHasStored,            \* ApiKeyModal: state `ytHasStored`
    ytConfirmDelete,        \* ApiKeyModal: state `ytConfirmDelete`
    ytProbes,               \* the keys of the validateApiKey calls in flight
    ytProbed,               \* the validateApiKey calls that returned, oldest first
    ytTimers,               \* the pending setTimeout callbacks of handleSaveYt
    geminiKey,              \* ApiKeyModal: state `geminiKey`
    geminiStatus,           \* ApiKeyModal: state `geminiStatus`
    geminiHasStored,        \* ApiKeyModal: state `geminiHasStored`
    geminiConfirmDelete,    \* ApiKeyModal: state `geminiConfirmDelete`
    geminiProbes,           \* the keys of the validateGeminiApiKey calls in flight
    geminiProbed,           \* the validateGeminiApiKey calls that returned
    geminiTimers,           \* the pending setTimeout callbacks of handleSaveGemini
    \* ---- handleSearch as the user or the auto-search effect calls it ----
    requested,              \* the last call of a handleSearch: view, query, count
    searchQuery,            \* <<q>>: the `q` of the last call that passed its guard
    \* ---- OpportunityFinder.handleSearch, several invocations in flight ----
    opInvocations,          \* the invocations, oldest first: topic, position, locals
    opFinished,             \* the invocations that reached finally, in that order
    \* ---- handleSummarizeVideo of the mounted view ----
    videoSummaries,         \* state `videoSummaries`: id -> <<>> when falsy, else <<text>>
    loadingSummaries,       \* state `loadingSummaries`: id -> truthy or not
    summaryInFlight,        \* id -> the summarizeVideo calls the mounted view awaits for it
    summaryLeft,            \* id -> the calls awaited by views that were unmounted since
    summaryOutcome,         \* id -> how its last summarizeVideo call went and whether it alerted
    \* ---- onAnalyzeChannel ----
    navigated               \* the names onAnalyzeChannel was called with, in that order

risingVars == <<pc, period, channelCreationCutoff, searchItems, videoMap,
                channelIds, chItems, videoDetails, risingChannels, calls>>
scoreVars  == <<input, chVideos, chProcessed, kwVideos, kwVideoType, kwSortOption,
                kwProcessed>>
viewVars   == <<activeTab, chChannel, chSortOption, chFilterOption, chDisplayCount, chSorted,
                chDisplay, kwDisplayCount, kwDisplay>>
\* The state of each view.
chVars     == <<chChannel, chVideos, chProcessed, chSortOption, chFilterOption,
                chDisplayCount, chSorted, chDisplay>>
kwVars     == <<kwVideos, kwVideoType, kwSortOption, kwProcessed, kwDisplayCount,
                kwDisplay>>
utilVars   == <<durInput, durResult, durVerdicts, csvData, csvFile, csvRead>>
flowVars   == <<wfPc, loading, analyzing, report, opChannels, hasSearched, alerts,
                errorLog, aiCalls, aiSettled, remote, detached, overtaken>>
codecVars  == <<keyInput, keyCipher, keyPlain>>
\* The application shell: the credentials and what hangs on them.
appVars    == <<mounted, apiKey, isKeyModalOpen, autoSearchChannel, localStorage>>
ytVars     == <<ytKey, ytStatus, ytHasStored, ytConfirmDelete, ytProbes, ytProbed, ytTimers>>
geminiVars == <<geminiKey, geminiStatus, geminiHasStored, geminiConfirmDelete,
                geminiProbes, geminiProbed, geminiTimers>>
callVars   == <<requested, searchQuery>>
raceVars   == <<opInvocations, opFinished>>
summaryVars == <<videoSummaries, loadingSummaries, summaryInFlight, summaryLeft,
                 summaryOutcome>>
navVars    == <<navigated>>
shellVars  == <<codecVars, appVars, ytVars, geminiVars, callVars, raceVars, summaryVars, navVars>>
vars       == <<risingVars, scoreVars, viewVars, utilVars, flowVars, shellVars>>
\* What findRisingChannels, the views and the utilities leave alone.
nonRisingVars == <<scoreVars, viewVars, utilVars, flowVars, shellVars>>
nonViewVars   == <<risingVars, utilVars, flowVars, shellVars>>
nonUtilVars   == <<risingVars, scoreVars, viewVars, flowVars, shellVars>>
nonFlowVars   == <<risingVars, utilVars, shellVars>>
\* App and the key modal: what no handler of a view touches.
keyVars  == <<codecVars, appVars, ytVars, geminiVars>>
hostVars == <<keyVars, callVars, navVars>>

(***************************************************************************)
(* Part I.  JavaScript helpers                                             *)
(***************************************************************************)

Min(a, b) == IF a <= b THEN a ELSE b
Max(a, b) == IF a >= b THEN a ELSE b

\* The element of a one-element set.  Below, a value that is used many
\* times is bound as `x \in {e}` so that it is computed once.
The(S) == CHOOSE x \in S : TRUE

\* String(undefined), which is what parseInt sees for an absent field.
Undefined == <<"u", "n", "d", "e", "f", "i", "n", "e", "d">>

DigitChars == <<"0", "1", "2", "3", "4", "5", "6", "7", "8", "9">>
IsDigit(c) == \E d \in 1..10 : DigitChars[d] = c
DigitVal(c) == (CHOOSE d \in 1..10 : DigitChars[d] = c) - 1

\* StrWhiteSpaceChar, which parseInt skips and String.prototype.trim removes:
\* WhiteSpace and LineTerminator.  A character outside ASCII (and the
\* vertical tab) is written as its JavaScript escape.
WhiteSpaceChars ==
    {" ", "\t", "\n", "\r", "\f", "\\v", "\\u00A0", "\\u1680", "\\u2000", "\\u2001",
     "\\u2002", "\\u2003", "\\u2004", "\\u2005", "\\u2006", "\\u2007", "\\u2008",
     "\\u2009", "\\u200A", "\\u2028", "\\u2029", "\\u202F", "\\u205F", "\\u3000",
     "\\uFEFF"}
IsSpace(c) == c \in WhiteSpaceChars

\* The digits of radix 16, in both cases.
HexChars == <<"0", "1", "2", "3", "4", "5", "6", "7", "8", "9",
              "a", "b", "c", "d", "e", "f", "A", "B", "C", "D", "E", "F">>
IsHexDigit(c) == \E d \in 1..22 : HexChars[d] = c
HexVal(c) == LET d == CHOOSE k \in 1..22 : HexChars[k] = c
             IN  IF d > 16 THEN d - 7 ELSE d - 1

NaN == [nan |-> TRUE, val |-> 0]
Num(n) == [nan |-> FALSE, val |-> n]

RECURSIVE SkipSpaces(_, _)
SkipSpaces(s, i) ==
    IF i <= Len(s) /\ IsSpace(s[i]) THEN SkipSpaces(s, i + 1) ELSE i

RECURSIVE ReadDigits(_, _, _)
\* The value of the longest run of digits of s starting at i, after acc.
ReadDigits(s, i, acc) ==
    IF i <= Len(s) /\ IsDigit(s[i])
    THEN ReadDigits(s, i + 1, acc * 10 + DigitVal(s[i]))
    ELSE acc

RECURSIVE ReadHexDigits(_, _, _)
\* The same for the digits of radix 16.
ReadHexDigits(s, i, acc) ==
    IF i <= Len(s) /\ IsHexDigit(s[i])
    THEN ReadHexDigits(s, i + 1, acc * 16 + HexVal(s[i]))
    ELSE acc

\* parseInt(s) without a radix: leading white space, an optional sign, then
\* after "0x" or "0X" the longest prefix of hexadecimal digits, otherwise
\* the longest prefix of decimal digits; NaN when there is no digit.
ParseInt(s) ==
    LET i == SkipSpaces(s, 1)
        signed == i <= Len(s) /\ s[i] \in {"+", "-"}
        sign == IF signed /\ s[i] = "-" THEN -1 ELSE 1
        j == IF signed THEN i + 1 ELSE i
        hex == j + 1 <= Len(s) /\ s[j] = "0" /\ s[j + 1] \in {"x", "X"}
    IN  IF hex
        THEN IF j + 2 <= Len(s) /\ IsHexDigit(s[j + 2])
             THEN Num(sign * ReadHexDigits(s, j + 2, 0))
             ELSE NaN
        ELSE IF j <= Len(s) /\ IsDigit(s[j])
        THEN Num(sign * ReadDigits(s, j, 0))
        ELSE NaN

\* n || d for a number n: NaN and 0 are falsy.
OrElse(n, d) == IF n.nan \/ n.val = 0 THEN d ELSE n.val

SeqHas(seq, x) == \E i \in 1..Len(seq) : seq[i] = x

\* Array.prototype.slice(0, n)
Slice0(seq, n) == SubSeq(seq, 1, Min(Len(seq), n))

\* [a, b, c].reverse()
Reverse(seq) == [i \in 1..Len(seq) |-> seq[Len(seq) + 1 - i]]

\* The elements of seq at the positions in keep, in order.
RECURSIVE Keep(_, _, _)
Keep(seq, keep, i) ==
    IF i > Len(seq) THEN <<>>
    ELSE IF i \in keep THEN <<seq[i]>> \o Keep(seq, keep, i + 1)
         ELSE Keep(seq, keep, i + 1)

\* A sort that is stable for short arrays only (as engines before
\* ECMAScript 2019 were allowed to be): in an array of more than ten elements
\* equal elements come out in reverse order.
JsSort_UnstableWhenLong(seq, c) ==
    The({LET n == Len(s)
             rank == [i \in 1..n |->
                         1 + Cardinality({j \in 1..n : m[j][i] < 0})
                           + (IF n > 10
                              THEN Cardinality({j \in (i + 1)..n : m[j][i] = 0})
                              ELSE Cardinality({j \in 1..(i - 1) : m[j][i] = 0}))]
         IN  The({[p \in 1..n |-> s[CHOOSE i \in 1..n : r[i] = p]] : r \in {rank}}) :
         <<s, m>> \in {<<seq, c>>}})

\* Array.prototype.sort(cmp): the stable sort ECMAScript 2019 requires.
\* c[i][j] is cmp(seq[i], seq[j]).  cmp is consistent here (it compares
\* finite numbers), so the result is the one arrangement in which x stands
\* before y when cmp(x, y) < 0 and equal elements keep their order.
JsSort(seq, c) ==
    The({LET n == Len(s)
             rank == [i \in 1..n |->
                         1 + Cardinality({j \in 1..n : m[j][i] < 0})
                           + Cardinality({j \in 1..(i - 1) : m[j][i] = 0})]
         IN  The({[p \in 1..n |-> s[CHOOSE i \in 1..n : r[i] = p]] : r \in {rank}}) :
         <<s, m>> \in {<<seq, c>>}})

\* Array.prototype.filter; test[i] is the callback's result for seq[i].
JsFilter(seq, test) ==
    The({Keep(s, keep, 1) : <<s, keep>> \in {<<seq, {i \in 1..Len(seq) : test[i]}>>}})

\* Math.max(...xs) for a non-empty array of numbers.
MathMax(xs) == CHOOSE m \in {xs[i] : i \in 1..Len(xs)} :
                   \A i \in 1..Len(xs) : xs[i] <= m

\* Exact quotients.
Rat(n, d) == [num |-> n, den |-> d]
\* The sign of a - b, for positive denominators.
RatCmp(a, b) == a.num * b.den - b.num * a.den

(***************************************************************************)
(* Numbers as the engine keeps them.  A double is [neg, bits, exp]: the     *)
(* value is the integer with the binary digits `bits` (first digit 1, or    *)
(* <<>> for zero) times 2^exp, negated when neg.  Every operation computes  *)
(* the exact result and rounds it to 53 digits, a tie going to the even     *)
(* one.  The values met here are far from the largest and smallest doubles. *)
(***************************************************************************)

Zeros(n) == [i \in 1..n |-> 0]

RECURSIVE IntBits(_)
\* The binary digits of a natural number.
IntBits(n) == IF n = 0 THEN <<>> ELSE Append(IntBits(n \div 2), n % 2)

RECURSIVE BitsInt(_)
BitsInt(bits) ==
    IF bits = <<>> THEN 0
    ELSE 2 * BitsInt(SubSeq(bits, 1, Len(bits) - 1)) + bits[Len(bits)]

\* The long operations work on the digits fifteen at a time.
LimbBits == 15
Limb == 2 ^ LimbBits

\* The number the last fifteen digits stand for, and the digits before them.
Low(bits) == BitsInt(SubSeq(bits, Max(1, Len(bits) - LimbBits + 1), Len(bits)))
High(bits) == SubSeq(bits, 1, Len(bits) - LimbBits)

RECURSIVE LeadingZeros(_)
\* How many zeros come before the first 1 (all of them when there is no 1).
LeadingZeros(bits) ==
    IF bits = <<>> THEN 0
    ELSE The({IF hi = 0 THEN k + LeadingZeros(SubSeq(bits, k + 1, Len(bits)))
              ELSE k - Len(IntBits(hi)) :
                 <<k, hi>> \in {<<Min(LimbBits, Len(bits)),
                                  BitsInt(SubSeq(bits, 1, Min(LimbBits, Len(bits))))>>}})

\* Without the leading zero digits.
StripZeros(bits) == SubSeq(bits, LeadingZeros(bits) + 1, Len(bits))

RECURSIVE ZerosBelow(_)
\* How many times 2 divides n > 0.
ZerosBelow(n) == IF n % 2 = 1 THEN 0 ELSE 1 + ZerosBelow(n \div 2)

RECURSIVE TrailingZeros(_)
\* How many zeros come after the last 1, for digits that are not all 0.
TrailingZeros(bits) ==
    The({IF low = 0 THEN LimbBits + TrailingZeros(High(bits)) ELSE ZerosBelow(low) :
            low \in {Low(bits)}})

\* n < Limb as fifteen digits.
LimbOf(n) == The({Zeros(LimbBits - Len(d)) \o d : d \in {IntBits(n)}})

RECURSIVE AddLimbs(_, _, _)
\* a + b + carry, with leading zeros
AddLimbs(a, b, carry) ==
    IF a = <<>> /\ b = <<>> THEN IntBits(carry)
    ELSE The({AddLimbs(High(a), High(b), t \div Limb) \o LimbOf(t % Limb) :
                 t \in {Low(a) + Low(b) + carry}})

RECURSIVE SubLimbs(_, _, _)
\* a - b - borrow for a >= b, with leading zeros
SubLimbs(a, b, borrow) ==
    IF a = <<>> THEN <<>>
    ELSE The({SubLimbs(High(a), High(b), IF t < 0 THEN 1 ELSE 0) \o LimbOf(t % Limb) :
                 t \in {Low(a) - Low(b) - borrow}})

RECURSIVE MulLimbs(_, _, _)
\* bits * n + carry for a natural number n < Limb, with leading zeros
MulLimbs(bits, n, carry) ==
    IF bits = <<>> THEN IntBits(carry)
    ELSE The({MulLimbs(High(bits), n, t \div Limb) \o LimbOf(t % Limb) :
                 t \in {Low(bits) * n + carry}})

AddBits(a, b) == StripZeros(AddLimbs(a, b, 0))
SubBits(a, b) == StripZeros(SubLimbs(a, b, 0))
MulBits(bits, n) == StripZeros(MulLimbs(bits, n, 0))

\* a < b for digit sequences without leading zeros.
BitsLess(a, b) ==
    \/ Len(a) < Len(b)
    \/ /\ Len(a) = Len(b)
       /\ \E i \in 1..Len(a) :
              /\ a[i] < b[i]
              /\ \A j \in 1..(i - 1) : a[j] = b[j]

DblZero == [neg |-> FALSE, bits |-> <<>>, exp |-> 0]

\* The double with the digits `bits` (not all 0) times 2^exp, the zeros at
\* the end of the digits moved into the exponent.
Dbl(neg, bits, exp) ==
    The({[neg |-> neg, bits |-> SubSeq(bits, 1, Len(bits) - z), exp |-> exp + z] :
            z \in {TrailingZeros(bits)}})

\* The double nearest to the exact value: 53 digits are kept, and the rest
\* decides the rounding.
RoundDigits(neg, bits, exp) ==
    LET n == Len(bits)
    IN  IF n = 0 THEN DblZero
        ELSE IF n <= 53 THEN Dbl(neg, bits, exp)
        ELSE LET head == SubSeq(bits, 1, 53)
                 more == \E i \in 55..n : bits[i] = 1
                 up == bits[54] = 1 /\ (more \/ bits[53] = 1)
             IN  Dbl(neg, IF up THEN AddBits(head, <<1>>) ELSE head, exp + (n - 53))

Round53(neg, bits, exp) == The({RoundDigits(neg, b, exp) : b \in {bits}})

RECURSIVE LeadZeros(_, _)
\* How many zeros r / b has after the binary point before its first 1, for
\* 0 < r < b.
LeadZeros(r, b) == IF 2 * r >= b THEN 0 ELSE 1 + LeadZeros(2 * r, b)

RECURSIVE RemAfter(_, _, _)
\* What is left of r after n binary digits of r / b.
RemAfter(r, b, n) ==
    IF n = 0 \/ r = 0 THEN r
    ELSE IF n = 1 THEN (2 * r) % b
    ELSE The({RemAfter(m, b, n - n \div 2) : m \in {RemAfter(r, b, n \div 2)}})

RECURSIVE QuotBits(_, _, _)
\* The first n binary digits of r / b after the point, for 0 <= r < b.
QuotBits(r, b, n) ==
    IF n = 0 \/ r = 0 THEN Zeros(n)
    ELSE IF n = 1 THEN <<IF 2 * r >= b THEN 1 ELSE 0>>
    ELSE The({QuotBits(r, b, n \div 2) \o QuotBits(m, b, n - n \div 2) :
                 m \in {RemAfter(r, b, n \div 2)}})

\* The digits of r / b after the binary point, for 0 <= r < b: as many as
\* make 55 significant digits with the have digits before the point, and one
\* more digit that stands for whatever is left.
FracBits(r, b, have) ==
    IF r = 0 THEN <<>>
    ELSE The({QuotBits(r, b, n) \o <<IF RemAfter(r, b, n) # 0 THEN 1 ELSE 0>> :
                 n \in {(IF have = 0 THEN LeadZeros(r, b) ELSE 0) + Max(55 - have, 0)}})

Abs(n) == IF n < 0 THEN -n ELSE n

\* a / b for two integers, b not 0.
DblDiv(a, b) ==
    The({The({Round53((a < 0) # (b < 0), StripZeros(whole \o frac), -Len(frac)) :
                 frac \in {FracBits(Abs(a) % Abs(b), Abs(b), Len(whole))}}) :
            whole \in {IntBits(Abs(a) \div Abs(b))}})

\* x * n for a double x and a natural number n.
DblMul(x, n) == Round53(x.neg, MulBits(x.bits, n), x.exp)

\* x + y
DblAdd(x, y) ==
    IF x.bits = <<>> THEN y
    ELSE IF y.bits = <<>> THEN x
    ELSE The({IF x.neg = y.neg THEN Round53(x.neg, AddBits(xb, yb), e)
              ELSE IF BitsLess(xb, yb) THEN Round53(y.neg, SubBits(yb, xb), e)
              ELSE Round53(x.neg, SubBits(xb, yb), e) :
                 <<e, xb, yb>> \in
                     {<<Min(x.exp, y.exp),
                        x.bits \o Zeros(x.exp - Min(x.exp, y.exp)),
                        y.bits \o Zeros(y.exp - Min(x.exp, y.exp))>>}})

\* The integer part of |x| and whether the rest is below, at or above 1/2.
DblParts(x) ==
    LET n == Len(x.bits)
        k == -x.exp
    IN  IF k <= 0 THEN [whole |-> BitsInt(x.bits \o Zeros(-k)), rest |-> "none"]
        ELSE [whole |-> IF n > k THEN BitsInt(SubSeq(x.bits, 1, n - k)) ELSE 0,
              rest  |-> IF n < k \/ x.bits[n - k + 1] = 0
                        THEN IF \E i \in Max(1, n - k + 1)..n : x.bits[i] = 1
                             THEN "below" ELSE "none"
                        ELSE IF \E i \in (n - k + 2)..n : x.bits[i] = 1
                             THEN "above" ELSE "half"]

\* Math.floor
MathFloor(x) ==
    The({The({IF ~v.neg THEN p.whole
              ELSE IF p.rest = "none" THEN -p.whole ELSE -(p.whole + 1) :
                 p \in {DblParts(v)}}) :
            v \in {x}})

\* Math.round: the nearest integer, a tie going up.
MathRound(x) ==
    The({The({IF ~v.neg
              THEN IF p.rest \in {"half", "above"} THEN p.whole + 1 ELSE p.whole
              ELSE IF p.rest = "above" THEN -(p.whole + 1) ELSE -p.whole :
                 p \in {DblParts(v)}}) :
            v \in {x}})

(***************************************************************************)
(* utils.ts: parseDuration                                                 *)
(***************************************************************************)

\* The first position at which "PT" occurs in s, or 0.
FirstPT(s) ==
    LET at == {i \in 1..(Len(s) - 1) : s[i] = "P" /\ s[i + 1] = "T"}
    IN  IF at = {} THEN 0 ELSE CHOOSE i \in at : \A j \in at : i <= j

RECURSIVE DigitsEnd(_, _)
\* The position after the run of digits of s that starts at i.
DigitsEnd(s, i) ==
    IF i <= Len(s) /\ IsDigit(s[i]) THEN DigitsEnd(s, i + 1) ELSE i

\* One optional group (\d+U)? tried at position i: the text it captured
\* (empty when the group did not take part) and the position after it.
DurationGroup(s, i, unit) ==
    LET e == DigitsEnd(s, i)
    IN  IF e > i /\ e <= Len(s) /\ s[e] = unit
        THEN [text |-> SubSeq(s, i, e), next |-> e + 1]
        ELSE [text |-> <<>>, next |-> i]

\* match[k] || '0'
GroupOrZero(text) == IF text = <<>> THEN <<"0">> ELSE text

\* An hour counted as 60 seconds.
parseDuration_HourIsSixty(duration) ==
    LET p == FirstPT(duration)
    IN  IF p = 0 THEN 0
        ELSE LET h == DurationGroup(duration, p + 2, "H")
                 m == DurationGroup(duration, h.next, "M")
                 s == DurationGroup(duration, m.next, "S")
                 hours   == OrElse(ParseInt(GroupOrZero(h.text)), 0)
                 minutes == OrElse(ParseInt(GroupOrZero(m.text)), 0)
                 seconds == OrElse(ParseInt(GroupOrZero(s.text)), 0)
             IN  hours * 60 + minutes * 60 + seconds

parseDuration(duration) ==
    LET p == FirstPT(duration)
    IN  IF p = 0 THEN 0
        ELSE LET h == DurationGroup(duration, p + 2, "H")
                 m == DurationGroup(duration, h.next, "M")
                 s == DurationGroup(duration, m.next, "S")
                 hours   == OrElse(ParseInt(GroupOrZero(h.text)), 0)
                 minutes == OrElse(ParseInt(GroupOrZero(m.text)), 0)
                 seconds == OrElse(ParseInt(GroupOrZero(s.text)), 0)
             IN  hours * 3600 + minutes * 60 + seconds

(***************************************************************************)
(* Part II.  The popularity scorer and the views' processedVideos           *)
(***************************************************************************)

\* A slip in the weights: likes weighted 50 instead of 30.
ChCalculateVideoScore_LikeWeight50(v, maxViews, maxLikes, maxComments) ==
    LET viewScore    == IF maxViews # 0
                        THEN DblMul(DblDiv(v.viewCount, maxViews), 50) ELSE DblZero
        likeScore    == IF maxLikes # 0
                        THEN DblMul(DblDiv(v.likeCount, maxLikes), 50) ELSE DblZero
        commentScore == IF maxComments # 0
                        THEN DblMul(DblDiv(v.commentCount, maxComments), 20) ELSE DblZero
    IN  MathRound(DblAdd(DblAdd(viewScore, likeScore), commentScore))

\* ChannelAnalysis.tsx: calculateVideoScore
ChCalculateVideoScore(v, maxViews, maxLikes, maxComments) ==
    LET viewScore    == IF maxViews # 0
                        THEN DblMul(DblDiv(v.viewCount, maxViews), 50) ELSE DblZero
        likeScore    == IF maxLikes # 0
                        THEN DblMul(DblDiv(v.likeCount, maxLikes), 30) ELSE DblZero
        commentScore == IF maxComments # 0
                        THEN DblMul(DblDiv(v.commentCount, maxComments), 20) ELSE DblZero
    IN  MathRound(DblAdd(DblAdd(viewScore, likeScore), commentScore))

\* Math.floor in place of Math.round.
KwCalculateVideoScore_Floor(v, maxViews, maxLikes, maxComments) ==
    LET viewScore    == IF maxViews # 0
                        THEN DblMul(DblDiv(v.viewCount, maxViews), 50) ELSE DblZero
        likeScore    == IF maxLikes # 0
                        THEN DblMul(DblDiv(v.likeCount, maxLikes), 30) ELSE DblZero
        commentScore == IF maxComments # 0
                        THEN DblMul(DblDiv(v.commentCount, maxComments), 20) ELSE DblZero
    IN  MathFloor(DblAdd(DblAdd(viewScore, likeScore), commentScore))

\* KeywordAnalysis.tsx: calculateVideoScore
KwCalculateVideoScore(v, maxViews, maxLikes, maxComments) ==
    LET viewScore    == IF maxViews # 0
                        THEN DblMul(DblDiv(v.viewCount, maxViews), 50) ELSE DblZero
        likeScore    == IF maxLikes # 0
                        THEN DblMul(DblDiv(v.likeCount, maxLikes), 30) ELSE DblZero
        commentScore == IF maxComments # 0
                        THEN DblMul(DblDiv(v.commentCount, maxComments), 20) ELSE DblZero
    IN  MathRound(DblAdd(DblAdd(viewScore, likeScore), commentScore))

MaxViewsOf(videos)    == MathMax([i \in 1..Len(videos) |-> videos[i].viewCount])
MaxLikesOf(videos)    == MathMax([i \in 1..Len(videos) |-> videos[i].likeCount])
MaxCommentsOf(videos) == MathMax([i \in 1..Len(videos) |-> videos[i].commentCount])

\* {...v, popularityScore: score}
WithScore(v, score) ==
    [f \in DOMAIN v \cup {"popularityScore"} |->
        IF f = "popularityScore" THEN score ELSE v[f]]

\* ChannelAnalysis.tsx: the memo processedVideos
ChProcessedVideos(videos) ==
    IF Len(videos) = 0 THEN <<>>
    ELSE The({[i \in 1..Len(videos) |->
                  WithScore(videos[i],
                      ChCalculateVideoScore(videos[i], maxViews, maxLikes, maxComments))] :
              <<maxViews, maxLikes, maxComments>> \in
                  {<<MaxViewsOf(videos), MaxLikesOf(videos), MaxCommentsOf(videos)>>}})

\* KeywordAnalysis.tsx: the comparator of step 3
KwCompare(sortOption, a, b) ==
    IF sortOption = "popularity" THEN b.popularityScore - a.popularityScore
    ELSE IF sortOption = "date" THEN b.publishedAt - a.publishedAt
    ELSE b.viewCount - a.viewCount

\* KeywordAnalysis.tsx: the type test of step 2
KwTypeTest(videoType, v) ==
    LET isShort == parseDuration(v.duration) < 180
    IN  IF videoType = "shorts" THEN isShort
        ELSE IF videoType = "video" THEN ~isShort
        ELSE TRUE

\* KeywordAnalysis.tsx: the memo processedVideos (score, filter, sort)
KwProcessedVideos(videos, videoType, sortOption) ==
    IF Len(videos) = 0 THEN <<>>
    ELSE LET Scored(maxViews, maxLikes, maxComments) ==
                 [i \in 1..Len(videos) |->
                     WithScore(videos[i],
                         KwCalculateVideoScore(videos[i], maxViews, maxLikes, maxComments))]
             Filtered(withScores) == JsFilter(withScores,
                 [i \in 1..Len(withScores) |-> KwTypeTest(videoType, withScores[i])])
             Sorted(filtered) == JsSort(filtered,
                 [i \in 1..Len(filtered) |-> [j \in 1..Len(filtered) |->
                     KwCompare(sortOption, filtered[i], filtered[j])]])
         IN  The({Sorted(filtered) :
                  filtered \in {Filtered(withScores) :
                      withScores \in {Scored(maxViews, maxLikes, maxComments) :
                          <<maxViews, maxLikes, maxComments>> \in
                              {<<MaxViewsOf(videos), MaxLikesOf(videos),
                                 MaxCommentsOf(videos)>>}}}})

\* KeywordAnalysis.tsx: displayVideos
KwDisplayVideos(processedVideos, displayCount) == Slice0(processedVideos, displayCount)

\* The keyword view cutting the fetched list to the display count before it
\* filters and sorts.
KwRender_SliceBeforeSort(videos, videoType, sortOption, displayCount) ==
    [videos |-> videos,
     processedVideos |-> KwProcessedVideos(videos, videoType, sortOption),
     displayVideos |->
         KwProcessedVideos(Slice0(videos, displayCount), videoType, sortOption)]

\* KeywordAnalysis.tsx: what a render leaves in `videos` and computes from
\* it.  Neither map nor filter writes to its receiver, and sort is applied
\* to the array filter returned.
KwRender(videos, videoType, sortOption, displayCount) ==
    The({[videos |-> videos,
          processedVideos |-> processedVideos,
          displayVideos |-> KwDisplayVideos(processedVideos, displayCount)] :
         processedVideos \in {KwProcessedVideos(videos, videoType, sortOption)}})

ChSortOptions   == {"popularity", "views", "date_desc", "date_asc"}
ChFilterOptions == {"all", "video", "shorts"}
ChDisplayCounts == {10, 30, 50}
KwSortOptions   == {"views", "popularity", "date"}
KwVideoTypes    == {"all", "video", "shorts"}
KwDisplayCounts == {10, 20, 50}

\* "<= 180" and "> 180" in place of "< 180" and ">= 180".
ChTypeTest_AtMost(filterOption, v) ==
    IF filterOption = "shorts" THEN parseDuration(v.duration) <= 180
    ELSE IF filterOption = "video" THEN parseDuration(v.duration) > 180
    ELSE TRUE

\* ChannelAnalysis.tsx: the callbacks of step 1 of sortedVideos
ChTypeTest(filterOption, v) ==
    IF filterOption = "shorts" THEN parseDuration(v.duration) < 180
    ELSE IF filterOption = "video" THEN parseDuration(v.duration) >= 180
    ELSE TRUE

\* ChannelAnalysis.tsx: the comparators of step 2 of sortedVideos
ChCompare(sortOption, a, b) ==
    IF sortOption = "popularity" THEN b.popularityScore - a.popularityScore
    ELSE IF sortOption = "views" THEN b.viewCount - a.viewCount
    ELSE IF sortOption = "date_desc" THEN b.publishedAt - a.publishedAt
    ELSE a.publishedAt - b.publishedAt

\* ChannelAnalysis.tsx: the memo sortedVideos (copy, filter, sort)
ChSortedVideos(processedVideos, filterOption, sortOption) ==
    The({IF sortOption \in ChSortOptions
         THEN JsSort(result,
                  [i \in 1..Len(result) |-> [j \in 1..Len(result) |->
                      ChCompare(sortOption, result[i], result[j])]])
         ELSE result :
         result \in {JsFilter(processedVideos,
                         [i \in 1..Len(processedVideos) |->
                             ChTypeTest(filterOption, processedVideos[i])])}})

\* ChannelAnalysis.tsx: displayVideos
ChDisplayVideos(sortedVideos, displayCount) == Slice0(sortedVideos, displayCount)

\* The scores written into the fetched records instead of into copies.
ChRender_ScoreInPlace(videos, filterOption, sortOption, displayCount) ==
    The({[videos |-> processedVideos,
          processedVideos |-> processedVideos,
          sortedVideos |-> sortedVideos,
          displayVideos |-> ChDisplayVideos(sortedVideos, displayCount)] :
         <<processedVideos, sortedVideos>> \in
             {<<p, ChSortedVideos(p, filterOption, sortOption)>> :
                 p \in {ChProcessedVideos(videos)}}})

\* ChannelAnalysis.tsx: what a render leaves in `videos` and computes from
\* it.  map builds new records, sortedVideos sorts a copy ([...]) or the
\* array filter returned, slice copies.
ChRender(videos, filterOption, sortOption, displayCount) ==
    The({[videos |-> videos,
          processedVideos |-> processedVideos,
          sortedVideos |-> sortedVideos,
          displayVideos |-> ChDisplayVideos(sortedVideos, displayCount)] :
         <<processedVideos, sortedVideos>> \in
             {<<p, ChSortedVideos(p, filterOption, sortOption)>> :
                 p \in {ChProcessedVideos(videos)}}})

(***************************************************************************)
(* Part III.  youtubeService: getVideoDetails and findRisingChannels        *)
(***************************************************************************)

Periods == {"3m", "6m", "1y", "all"}

\* Instants are counted in minutes since the epoch.
Day == 1440

\* new Date(): the instant of the invocation.
Now == 20000 * Day

\* By how many minutes the local offset from UTC at the invocation exceeds
\* the one on the cutoff's calendar day.  The time zone of the host decides:
\* nothing, the hour of daylight saving time (half an hour on Lord Howe
\* Island, two hours at Troll station), or a change of the zone's standard
\* time (two hours at Vostok station, three at Casey station).
OffsetShifts == {-180, -120, -60, -30, 0, 30, 60, 120, 180}

\* The switch on `period`: setDate(now.getDate() - n) moves the local date
\* back n calendar days and keeps the local time of day, so the instant
\* moves back n * 24 hours less the change of the offset (`shift`, in
\* minutes); new Date(0) is the epoch.
CreationCutoff(p, shift) ==
    IF p = "3m" THEN Now - 90 * Day + shift
    ELSE IF p = "6m" THEN Now - 180 * Day + shift
    ELSE IF p = "1y" THEN Now - 365 * Day + shift
    ELSE 0

\* The has() test dropped: a later video of a channel replaces the recorded
\* one (Map.set on a present key keeps the entry's place).
RECURSIVE ExtractChannels_LastWins(_, _, _)
ExtractChannels_LastWins(items, i, acc) ==
    IF i > Len(items) THEN acc
    ELSE LET chId == items[i].channelId
         IN  IF ~SeqHas(acc.channelIdsSet, chId)
             THEN ExtractChannels_LastWins(items, i + 1,
                      [channelIdsSet |-> Append(acc.channelIdsSet, chId),
                       videoMap |-> Append(acc.videoMap,
                                       [key |-> chId, value |-> items[i].videoId])])
             ELSE ExtractChannels_LastWins(items, i + 1,
                      [channelIdsSet |-> acc.channelIdsSet,
                       videoMap |-> [k \in 1..Len(acc.videoMap) |->
                           IF acc.videoMap[k].key = chId
                           THEN [key |-> chId, value |-> items[i].videoId]
                           ELSE acc.videoMap[k]]])

\* The forEach over searchData.items: a channel seen for the first time is
\* added to channelIdsSet and its video recorded in videoMap.
RECURSIVE ExtractChannels(_, _, _)
ExtractChannels(items, i, acc) ==
    IF i > Len(items) THEN acc
    ELSE LET chId == items[i].channelId
         IN  IF ~SeqHas(acc.channelIdsSet, chId)
             THEN ExtractChannels(items, i + 1,
                      [channelIdsSet |-> Append(acc.channelIdsSet, chId),
                       videoMap |-> Append(acc.videoMap,
                                       [key |-> chId, value |-> items[i].videoId])])
             ELSE ExtractChannels(items, i + 1, acc)

Extracted(items) == ExtractChannels(items, 1, [channelIdsSet |-> <<>>, videoMap |-> <<>>])

ChannelCap == 40

\* The slice forgotten.
ChannelIdsOf_NoSlice(channelIdsSet) == channelIdsSet

\* Array.from(channelIdsSet).slice(0, 40)
ChannelIdsOf(channelIdsSet) == Slice0(channelIdsSet, ChannelCap)

\* Map.prototype.has / get on a map kept as its entries in insertion order.
MapHas(map, k) == \E i \in 1..Len(map) : map[i].key = k
MapGet(map, k) == map[CHOOSE i \in 1..Len(map) : map[i].key = k].value

\* Array.from(videoMap.values())
VideoIdsToFetch(map) == [i \in 1..Len(map) |-> map[i].value]

\* getVideoDetails: one item of the response mapped to a YouTubeVideo.
ToYouTubeVideo(item) ==
    [id |-> item.id,
     channelId |-> item.channelId,
     viewCount |-> OrElse(ParseInt(item.viewCount), 0),
     likeCount |-> OrElse(ParseInt(item.likeCount), 0),
     commentCount |-> OrElse(ParseInt(item.commentCount), 0),
     duration |-> item.duration,
     publishedAt |-> item.publishedAt]

\* getVideoDetails, after the response arrived.
GetVideoDetailsResult(resp) ==
    IF ~resp.hasItems THEN <<>>
    ELSE [i \in 1..Len(resp.items) |-> ToYouTubeVideo(resp.items[i])]

\* new Map(videoDetails.map(v => [v.id, v])): a later entry replaces an
\* earlier one with the same id.
DetailsHas(details, videoId) == \E i \in 1..Len(details) : details[i].id = videoId
DetailsGet(details, videoId) ==
    LET at == {i \in 1..Len(details) : details[i].id = videoId}
    IN  details[CHOOSE i \in at : \A j \in at : j <= i]

\* "|| 0" in place of "|| 1".
SubCount_OrZero(item) == OrElse(ParseInt(item.subscriberCount), 0)

\* parseInt(item.statistics.subscriberCount) || 1
SubCount(item) == OrElse(ParseInt(item.subscriberCount), 1)

\* subCount > 0 ? (fullVideo.viewCount / subCount) : 0
Ratio(viewCount, subCount) ==
    IF subCount > 0 THEN Rat(viewCount, subCount) ELSE Rat(0, 1)

\* ">" in place of ">=".
CreatedInWindow_Strict(item, cutoff) == item.publishedAt > cutoff

\* publishedAt >= channelCreationCutoff
CreatedInWindow(item, cutoff) == item.publishedAt >= cutoff

\* The "!fullVideo" return missing: a channel whose video was not resolved
\* is pushed with an empty video.
RisingOf_NoResolvedGuard(item, cutoff, map, details) ==
    IF CreatedInWindow(item, cutoff) /\ MapHas(map, item.id)
    THEN LET videoId   == MapGet(map, item.id)
             fullVideo == IF DetailsHas(details, videoId)
                          THEN DetailsGet(details, videoId)
                          ELSE [id |-> 0, channelId |-> 0, viewCount |-> 0,
                                likeCount |-> 0, commentCount |-> 0,
                                duration |-> <<>>, publishedAt |-> 0]
             subCount  == SubCount(item)
         IN  <<[details |-> [id |-> item.id, subscriberCount |-> subCount,
                             publishedAt |-> item.publishedAt],
                topVideo |-> fullVideo,
                topVideoViews |-> fullVideo.viewCount,
                score |-> Ratio(fullVideo.viewCount, subCount)]>>
    ELSE <<>>

\* The body of chData.items.forEach for one item: the results it pushes.
RisingOf(item, cutoff, map, details) ==
    IF CreatedInWindow(item, cutoff)
    THEN IF MapHas(map, item.id) /\ DetailsHas(details, MapGet(map, item.id))
         THEN LET fullVideo == DetailsGet(details, MapGet(map, item.id))
                  subCount  == SubCount(item)
                  channelObj == [id |-> item.id,
                                 subscriberCount |-> subCount,
                                 publishedAt |-> item.publishedAt]
              IN  <<[details |-> channelObj,
                     topVideo |-> fullVideo,
                     topVideoViews |-> fullVideo.viewCount,
                     score |-> Ratio(fullVideo.viewCount, subCount)]>>
         ELSE <<>>
    ELSE <<>>

RECURSIVE CollectRising(_, _, _, _, _)
CollectRising(items, i, cutoff, map, details) ==
    IF i > Len(items) THEN <<>>
    ELSE RisingOf(items[i], cutoff, map, details)
             \o CollectRising(items, i + 1, cutoff, map, details)

\* The operands swapped: ascending.
RisingCompare_Ascending(a, b) == RatCmp(a.score, b.score)

\* (a, b) => b.score - a.score
RisingCompare(a, b) == RatCmp(b.score, a.score)

\* risingChannels.sort((a, b) => b.score - a.score)
SortRising(results) ==
    JsSort(results,
        [i \in 1..Len(results) |-> [j \in 1..Len(results) |->
            RisingCompare(results[i], results[j])]])

(***************************************************************************)
(* The remote service: the responses the model draws.                       *)
(*                                                                         *)
(* A search response lists distinct videos; the video ranked i has id       *)
(* 100 + i.  A channels response lists channels that were asked for, each   *)
(* at most once, in any order the service likes; a videos response lists    *)
(* videos that were asked for.  Either may come without an `items` field.   *)
(***************************************************************************)

\* Longest search list whose channel assignment is drawn freely.
MaxSearchLen == 3

\* maxResults=50 of the search URL.
MaxResults == 50

ChannelPool == {1, 2, 3}

Absent == [hasItems |-> FALSE, items |-> <<>>]
Present(items) == [hasItems |-> TRUE, items |-> items]

SearchItemsOf(chs) ==
    [i \in 1..Len(chs) |-> [videoId |-> 100 + i, channelId |-> chs[i]]]

\* Every assignment of pool channels to at most MaxSearchLen results.
SmallSearchLists == UNION {[1..n -> ChannelPool] : n \in 0..MaxSearchLen}

\* n results spread round-robin over k channels, for the full-page cases.
LongShapes == {<<41, 41>>, <<MaxResults, MaxResults>>, <<MaxResults, 45>>,
               <<MaxResults, 2>>}
LongSearchLists == {[i \in 1..sh[1] |-> ((i - 1) % sh[2]) + 1] : sh \in LongShapes}

SearchResponses ==
    {Absent} \cup {Present(SearchItemsOf(chs)) : chs \in SmallSearchLists \cup LongSearchLists}

\* statistics.subscriberCount as sent, per channel (id taken round-robin).
SubsProfiles ==
    {<<<<"0">>, <<"1", "0", "0", "0", "0">>, Undefined>>,
     <<<<"2">>, <<"a", "b", "c">>, <<"1">>>>}

\* The length in days of the window a period selects; 'all' selects no
\* window, and the channels drawn for it are those of a year's.
WindowDays(p) ==
    CASE p = "3m" -> 90 [] p = "6m" -> 180 [] OTHER -> 365

\* How many minutes before Now a channel was created, per channel, for
\* period p: a day either side of the window's length and that length to the
\* minute; a minute and an hour and a half more, an hour and a half less;
\* and, there being no window, just now, long ago and at the epoch.
CreatedProfiles(p) ==
    {<<(WindowDays(p) - 1) * Day, WindowDays(p) * Day, (WindowDays(p) + 1) * Day>>,
     <<WindowDays(p) * Day + 1, WindowDays(p) * Day + 90, WindowDays(p) * Day - 90>>}
    \cup (IF p = "all" THEN {<<0, 6000 * Day, Now>>} ELSE {})

\* statistics.viewCount as sent, per video rank.
ViewsProfiles ==
    {<<<<"1", "0", "0", "0">>, <<"1", "0", "0", "0">>, <<"1", "0", "0", "0">>>>,
     <<<<"3">>, Undefined, <<"1", "0", "0", "0">>>>}

Pick(profile, id) == profile[((id - 1) % Len(profile)) + 1]

ChannelItem(id, sp, cp) ==
    [id |-> id, subscriberCount |-> Pick(sp, id), publishedAt |-> Now - Pick(cp, id)]

\* seq without its element at position d (d = 0: all of seq).
DropAt(seq, d) == Keep(seq, (1..Len(seq)) \ {d}, 1)

\* The positions a response may leave out: none, or the first one asked for.
Drops == {0, 1}

IsSmall(ids) == Len(ids) <= MaxSearchLen

\* The profiles drawn for the channels of a full page.
FullPageSubs    == <<<<"0">>, <<"1", "0", "0", "0", "0">>, Undefined>>
FullPageCreated == <<89 * Day, 90 * Day, 91 * Day>>

\* How a channels response is laid out: what it leaves out, and whether it
\* lists the channels in the order asked for or in the reverse one.
Layouts(small) ==
    {<<0, FALSE>>, <<0, TRUE>>} \cup (IF small THEN {<<1, FALSE>>} ELSE {})

\* The channels responses drawn for a request naming ids.  After a search
\* list of at most MaxSearchLen results every profile and layout is drawn;
\* after a full page, one profile in both orders.

ChannelResponses(ids, small) ==
    {Absent} \cup
    {Present(IF rev THEN Reverse(DropAt(items, d)) ELSE DropAt(items, d)) :
        <<items, d, rev>> \in
            {<<[i \in 1..Len(ids) |-> ChannelItem(ids[i], sp, cp)], lay[1], lay[2]>> :
                <<sp, cp, lay>> \in
                    (IF small THEN SubsProfiles ELSE {FullPageSubs})
                    \X (IF small THEN CreatedProfiles(period) ELSE {FullPageCreated})
                    \X Layouts(small)}}

\* The channel that owns a video of the search response.
OwnerOf(items, videoId) ==
    items[CHOOSE i \in 1..Len(items) : items[i].videoId = videoId].channelId

VideoItem(searched, videoId, vp) ==
    [id |-> videoId,
     channelId |-> OwnerOf(searched, videoId),
     viewCount |-> Pick(vp, videoId - 100),
     likeCount |-> <<"7">>,
     commentCount |-> Undefined,
     duration |-> <<"P", "T", "4", "M">>,
     publishedAt |-> Now - 10]

VideoResponses(searched, vids, small) ==
    {Absent} \cup
    {Present(DropAt([i \in 1..Len(vids) |-> VideoItem(searched, vids[i], vp)], d)) :
        <<vp, d>> \in ViewsProfiles \X (IF small THEN Drops ELSE {0})}

(***************************************************************************)
(* findRisingChannels, one action per awaited call                          *)
(***************************************************************************)

Call(kind, ids) == [kind |-> kind, ids |-> ids]

\* Lines 142-196: the cutoff is computed and the search request sent.
Invoke(p) ==
    /\ pc = "idle"
    /\ period' = p
    /\ \E shift \in OffsetShifts : channelCreationCutoff' = CreationCutoff(p, shift)
    /\ calls' = Append(calls, Call("search", <<>>))
    /\ pc' = "search"
    /\ UNCHANGED <<searchItems, videoMap, channelIds, chItems, videoDetails,
                   risingChannels>>

\* The "channelIds.length === 0" return missing.
SearchReturns_NoEmptyGuard(resp) ==
    /\ pc = "search"
    /\ searchItems' = resp
    /\ IF ~resp.hasItems
       THEN /\ risingChannels' = <<>>
            /\ pc' = "done"
            /\ UNCHANGED <<videoMap, channelIds, calls>>
       ELSE LET ex  == Extracted(resp.items)
                ids == ChannelIdsOf(ex.channelIdsSet)
            IN  /\ videoMap' = ex.videoMap
                /\ channelIds' = ids
                /\ calls' = Append(calls, Call("channels", ids))
                /\ pc' = "channels"
                /\ UNCHANGED risingChannels
    /\ UNCHANGED <<period, channelCreationCutoff, chItems, videoDetails>>

\* Lines 197-218: the search response arrives; the channel ids are extracted
\* and capped, and the channels request sent unless there is nothing to ask.
SearchReturns(resp) ==
    /\ pc = "search"
    /\ searchItems' = resp
    /\ IF ~resp.hasItems
       THEN /\ risingChannels' = <<>>
            /\ pc' = "done"
            /\ UNCHANGED <<videoMap, channelIds, calls>>
       ELSE LET ex  == Extracted(resp.items)
                ids == ChannelIdsOf(ex.channelIdsSet)
            IN  /\ videoMap' = ex.videoMap
                /\ channelIds' = ids
                /\ IF Len(ids) = 0
                   THEN /\ risingChannels' = <<>>
                        /\ pc' = "done"
                        /\ UNCHANGED calls
                   ELSE /\ calls' = Append(calls, Call("channels", ids))
                        /\ pc' = "channels"
                        /\ UNCHANGED risingChannels
    /\ UNCHANGED <<period, channelCreationCutoff, chItems, videoDetails>>

\* The value the invocation resolves to once the video details are known
\* (lines 226-266).
RisingResult(items, cutoff, map, details) ==
    SortRising(CollectRising(items, 1, cutoff, map, details))

\* The video details fetched once per channel instead of once per batch.
ChannelsReturn_FetchPerVideo(resp) ==
    /\ pc = "channels"
    /\ chItems' = resp
    /\ IF ~resp.hasItems
       THEN /\ risingChannels' = <<>>
            /\ pc' = "done"
            /\ UNCHANGED <<videoDetails, calls>>
       ELSE LET videoIdsToFetch == VideoIdsToFetch(videoMap)
            IN  /\ calls' = calls \o [i \in 1..Len(videoIdsToFetch) |->
                                        Call("videos", <<videoIdsToFetch[i]>>)]
                /\ pc' = "videos"
                /\ UNCHANGED <<videoDetails, risingChannels>>
    /\ UNCHANGED <<period, channelCreationCutoff, searchItems, videoMap, channelIds>>

\* Lines 219-225 and 117-121: the channels response arrives; the video
\* details request is sent for the values of videoMap.
ChannelsReturn(resp) ==
    /\ pc = "channels"
    /\ chItems' = resp
    /\ IF ~resp.hasItems
       THEN /\ risingChannels' = <<>>
            /\ pc' = "done"
            /\ UNCHANGED <<videoDetails, calls>>
       ELSE LET videoIdsToFetch == VideoIdsToFetch(videoMap)
            IN  IF Len(videoIdsToFetch) = 0
                THEN /\ videoDetails' = <<>>
                     /\ risingChannels' =
                            RisingResult(resp.items, channelCreationCutoff, videoMap, <<>>)
                     /\ pc' = "done"
                     /\ UNCHANGED calls
                ELSE /\ calls' = Append(calls, Call("videos", videoIdsToFetch))
                     /\ pc' = "videos"
                     /\ UNCHANGED <<videoDetails, risingChannels>>
    /\ UNCHANGED <<period, channelCreationCutoff, searchItems, videoMap, channelIds>>

\* Lines 122-139 and 226-266: the videos response arrives; the results are
\* built, sorted and returned.
VideosReturn(resp) ==
    /\ pc = "videos"
    /\ videoDetails' = GetVideoDetailsResult(resp)
    /\ risingChannels' =
           RisingResult(chItems.items, channelCreationCutoff, videoMap, videoDetails')
    /\ pc' = "done"
    /\ UNCHANGED <<period, channelCreationCutoff, searchItems, videoMap, channelIds,
                   chItems, calls>>

\* An awaited fetch() or json() rejects: the invocation rejects.
Rejects ==
    /\ pc \in {"search", "channels", "videos"}
    /\ pc' = "rejected"
    /\ UNCHANGED <<period, channelCreationCutoff, searchItems, videoMap, channelIds,
                   chItems, videoDetails, risingChannels, calls>>

UtilIdle ==
    /\ durInput = <<>>
    /\ durResult = <<>>
    /\ durVerdicts = <<>>
    /\ csvData = <<>>
    /\ csvFile = <<>>
    /\ csvRead = <<>>

\* No handleSearch was invoked: the useState initial values.
FlowIdle ==
    /\ wfPc = "idle"
    /\ loading = FALSE
    /\ analyzing = FALSE
    /\ report = <<>>
    /\ opChannels = <<>>
    /\ hasSearched = FALSE
    /\ alerts = <<>>
    /\ errorLog = <<>>
    /\ aiCalls = <<>>
    /\ aiSettled = <<>>
    /\ remote = <<>>
    /\ detached = FALSE
    /\ overtaken = <<>>

\* Neither encryptKey nor decryptKey was called.
CodecIdle ==
    /\ keyInput = <<>>
    /\ keyCipher = <<>>
    /\ keyPlain = <<>>

\* ApiKeyModal as mounted: the useState initial values, nothing pending.
ModalMounted ==
    /\ ytKey = <<>>
    /\ ytStatus = "idle"
    /\ ytHasStored = FALSE
    /\ ytConfirmDelete = FALSE
    /\ ytProbes = <<>>
    /\ ytProbed = <<>>
    /\ ytTimers = 0
    /\ geminiKey = <<>>
    /\ geminiStatus = "idle"
    /\ geminiHasStored = FALSE
    /\ geminiConfirmDelete = FALSE
    /\ geminiProbes = <<>>
    /\ geminiProbed = <<>>
    /\ geminiTimers = 0

\* The application after its mount effect found a stored data key: the key
\* is active and the modal stays closed.
AppReady ==
    /\ mounted = TRUE
    /\ apiKey = <<65, 73>>
    /\ isKeyModalOpen = FALSE
    /\ autoSearchChannel = <<>>
    /\ localStorage = [n \in {"yt_api_key", "gemini_api_key"} |->
                          IF n = "yt_api_key" THEN <<<<"O", "j", "I", "=">>>> ELSE <<>>]
    /\ ModalMounted

\* No handleSearch was called.
CallIdle ==
    /\ requested = [view |-> "none", q |-> <<>>, n |-> 0]
    /\ searchQuery = <<>>

\* No invocation of the racing handler.
RaceIdle ==
    /\ opInvocations = <<>>
    /\ opFinished = <<>>

\* The videos whose summary is asked for.
SummaryIds == {101, 102}

\* No summary was asked for: both states are {}.
SummaryIdle ==
    /\ videoSummaries = [id \in SummaryIds |-> <<>>]
    /\ loadingSummaries = [id \in SummaryIds |-> FALSE]
    /\ summaryInFlight = [id \in SummaryIds |-> 0]
    /\ summaryLeft = [id \in SummaryIds |-> 0]
    /\ summaryOutcome = [id \in SummaryIds |-> [call |-> "none", alert |-> FALSE]]

\* onAnalyzeChannel was not called.
NavIdle == navigated = <<>>

ShellIdle == CodecIdle /\ AppReady /\ CallIdle /\ RaceIdle /\ SummaryIdle /\ NavIdle

RisingInit ==
    /\ pc = "idle"
    /\ period = "1y"
    /\ channelCreationCutoff = 0
    /\ searchItems = Absent
    /\ videoMap = <<>>
    /\ channelIds = <<>>
    /\ chItems = Absent
    /\ videoDetails = <<>>
    /\ risingChannels = <<>>
    /\ calls = <<>>

\* ChannelAnalysis as mounted: the useState initial values and the memos
\* of the first render.
ChMounted ==
    /\ chChannel = "null"
    /\ chVideos = <<>>
    /\ chProcessed = <<>>
    /\ chSortOption = "popularity"
    /\ chFilterOption = "all"
    /\ chDisplayCount = 50
    /\ chSorted = <<>>
    /\ chDisplay = <<>>

\* KeywordAnalysis as mounted.
KwMounted ==
    /\ kwVideos = <<>>
    /\ kwVideoType = "all"
    /\ kwSortOption = "views"
    /\ kwDisplayCount = 50
    /\ kwProcessed = <<>>
    /\ kwDisplay = <<>>

ScoreIdle ==
    /\ input = <<>>
    /\ activeTab = "CHANNEL_ANALYSIS"
    /\ ChMounted
    /\ KwMounted

Init == RisingInit /\ ScoreIdle /\ UtilIdle /\ FlowIdle /\ ShellIdle

Next ==
    \/ \E p \in Periods : Invoke(p) /\ UNCHANGED nonRisingVars
    \/ \E resp \in SearchResponses : SearchReturns(resp) /\ UNCHANGED nonRisingVars
    \/ \E resp \in ChannelResponses(channelIds, IsSmall(searchItems.items)) :
           ChannelsReturn(resp) /\ UNCHANGED nonRisingVars
    \/ \E resp \in VideoResponses(searchItems.items, VideoIdsToFetch(videoMap),
                                  IsSmall(searchItems.items)) :
           VideosReturn(resp) /\ UNCHANGED nonRisingVars
    \/ Rejects /\ UNCHANGED nonRisingVars

Spec == Init /\ [][Next]_vars

(***************************************************************************)
(* The views: a fetched collection is stored and the memo recomputed.       *)
(***************************************************************************)

\* Longest collection handed to a view.
MaxVideos == 2

\* <<views, likes, comments>> of a fetched video: counts of 0, shares that
\* doubles hold exactly (1/4) and shares they do not (1/3, 1/6, 1/36).
CountTriples ==
    {<<0, 0, 0>>, <<1, 0, 0>>, <<0, 1, 0>>, <<0, 0, 1>>, <<1, 1, 0>>, <<1, 1, 1>>,
     <<4, 1, 4>>, <<4, 4, 4>>, <<3, 4, 6>>, <<3, 36, 0>>}

ShortDuration == <<"P", "T", "2", "M", "5", "9", "S">>
LongDuration  == <<"P", "T", "3", "M">>

FetchedVideo(i, counts) ==
    [id |-> i, viewCount |-> counts[1], likeCount |-> counts[2],
     commentCount |-> counts[3],
     duration |-> IF i % 2 = 1 THEN ShortDuration ELSE LongDuration,
     publishedAt |-> Now - i]

\* The collections of at most max videos with counts drawn from CountTriples.
ScoreInputs(max) ==
    UNION {{[i \in 1..n |-> FetchedVideo(i, f[i])] : f \in [1..n -> CountTriples]} :
           n \in 0..max}

\* ChannelAnalysis.handleSearch: setVideos(vData), then the render that
\* recomputes processedVideos.
ChannelSetVideos(vData) ==
    \E r \in {ChRender(vData, chFilterOption, chSortOption, chDisplayCount)} :
        /\ chVideos' = r.videos
        /\ chProcessed' = r.processedVideos
        /\ chSorted' = r.sortedVideos
        /\ chDisplay' = r.displayVideos
        /\ UNCHANGED <<input, activeTab, chChannel, chSortOption, chFilterOption,
                       chDisplayCount, kwVars>>

\* KeywordAnalysis.handleSearch: setVideos(vData), then the render that
\* recomputes processedVideos.
KeywordSetVideos(vData) ==
    \E r \in {KwRender(vData, kwVideoType, kwSortOption, kwDisplayCount)} :
        /\ kwVideos' = r.videos
        /\ kwProcessed' = r.processedVideos
        /\ kwDisplay' = r.displayVideos
        /\ UNCHANGED <<input, activeTab, kwVideoType, kwSortOption, kwDisplayCount,
                       chVars>>

InitScore ==
    /\ RisingInit
    /\ FlowIdle
    /\ ShellIdle
    /\ UtilIdle
    /\ input \in ScoreInputs(MaxVideos)
    /\ activeTab = "CHANNEL_ANALYSIS"
    /\ ChMounted
    /\ KwMounted

NextScore ==
    \/ ChannelSetVideos(input) /\ UNCHANGED nonViewVars
    \/ KeywordSetVideos(input) /\ UNCHANGED nonViewVars

SpecScore == InitScore /\ [][NextScore]_vars

(***************************************************************************)
(* The views' list controls: type filter, sort key and display count.       *)
(* App renders the view of the active tab only; a view that is unmounted    *)
(* loses its state and a view that is mounted starts from its initial       *)
(* values.                                                                 *)
(***************************************************************************)

AppTabs == {"CHANNEL_ANALYSIS", "KEYWORD_ANALYSIS", "OPPORTUNITY_FINDER"}

\* The most invocations of handleSearch that are followed together.
MaxInvocations == 2

\* The handleSearch that is followed is suspended on a remote call.
SearchInFlight == wfPc \notin {"idle", "done"}

\* What is kept of an invocation while another one is followed: where it is
\* suspended, the locals of its findRisingChannels, what it has asked for,
\* alerted and logged, and whether its view is still mounted.
Suspended ==
    [wfPc |-> wfPc, pc |-> pc, period |-> period,
     channelCreationCutoff |-> channelCreationCutoff, searchItems |-> searchItems,
     videoMap |-> videoMap, channelIds |-> channelIds, chItems |-> chItems,
     videoDetails |-> videoDetails, risingChannels |-> risingChannels, calls |-> calls,
     alerts |-> alerts, errorLog |-> errorLog, aiCalls |-> aiCalls,
     aiSettled |-> aiSettled, remote |-> remote, detached |-> detached]

\* The invocation followed from here on has not called findRisingChannels.
NoRisingLocals ==
    /\ pc' = "idle"
    /\ period' = "1y"
    /\ channelCreationCutoff' = 0
    /\ searchItems' = Absent
    /\ videoMap' = <<>>
    /\ channelIds' = <<>>
    /\ chItems' = Absent
    /\ videoDetails' = <<>>
    /\ risingChannels' = <<>>
    /\ calls' = <<>>

\* The invocations once the view that called them is unmounted.
Unmounted(invs) == [i \in 1..Len(invs) |-> [invs[i] EXCEPT !.detached = TRUE]]

\* The invocations in flight beside a new one: those that were, and the one
\* followed so far when it has not run to its end.
Overtaking == IF SearchInFlight THEN Append(overtaken, Suspended) ELSE overtaken

\* One more invocation can be followed.
CanOvertake == SearchInFlight => Len(overtaken) < MaxInvocations - 1

\* Every invocation of the racing handler has run to its end.
AllSettled == \A i \in 1..Len(opInvocations) : opInvocations[i].pc = "done"

\* App renders the view of tab t in place of the one shown (part_000 lines
\* 133-150).  Every useState of the view that goes is lost, its summaries
\* and the flags of its search among them.  A handleSearch or a
\* handleSummarizeVideo it was awaiting runs on when its call settles: its
\* setState calls change nothing any more, its alert() and console.error()
\* calls and its further remote calls are made as before.  The view that
\* comes starts from its initial values; `isLoading` and `at` are what its
\* mount effect left of `loading` and of its handleSearch.
ViewMounts(t, isLoading, at) ==
    /\ t # activeTab
    /\ activeTab' = t
    /\ chChannel' = "null"
    /\ chVideos' = <<>>
    /\ chProcessed' = <<>>
    /\ chSortOption' = "popularity"
    /\ chFilterOption' = "all"
    /\ chDisplayCount' = 50
    /\ chSorted' = <<>>
    /\ chDisplay' = <<>>
    /\ kwVideos' = <<>>
    /\ kwVideoType' = "all"
    /\ kwSortOption' = "views"
    /\ kwDisplayCount' = 50
    /\ kwProcessed' = <<>>
    /\ kwDisplay' = <<>>
    /\ videoSummaries' = [id \in SummaryIds |-> <<>>]
    /\ loadingSummaries' = [id \in SummaryIds |-> FALSE]
    /\ summaryInFlight' = [id \in SummaryIds |-> 0]
    /\ summaryLeft' = [id \in SummaryIds |-> summaryLeft[id] + summaryInFlight[id]]
    /\ summaryOutcome' = [id \in SummaryIds |-> [call |-> "none", alert |-> FALSE]]
    /\ loading' = isLoading
    /\ analyzing' = FALSE
    /\ report' = <<>>
    /\ opChannels' = <<>>
    /\ hasSearched' = FALSE
    /\ opInvocations' = IF AllSettled THEN <<>> ELSE Unmounted(opInvocations)
    /\ opFinished' = IF AllSettled THEN <<>> ELSE opFinished
    /\ IF SearchInFlight /\ at = "idle"
       THEN \* the invocation of the view that goes is followed further
            /\ detached' = TRUE
            /\ overtaken' = Unmounted(overtaken)
            /\ UNCHANGED <<wfPc, alerts, errorLog, aiCalls, aiSettled, remote, risingVars>>
       ELSE \* the one the mount effect called is followed, or none
            /\ CanOvertake
            /\ detached' = FALSE
            /\ overtaken' = Unmounted(Overtaking)
            /\ wfPc' = at
            /\ alerts' = <<>>
            /\ errorLog' = <<>>
            /\ aiCalls' = <<>>
            /\ aiSettled' = <<>>
            /\ remote' = <<>>
            /\ NoRisingLocals
    /\ UNCHANGED input

\* A setState call of the invocation followed: `next` when its view is
\* mounted, and no change of the state otherwise.
SetState(current, next) == IF detached THEN current ELSE next

\* App: setActiveTab(t) of a navigation button (part_000 lines 55-127), then
\* the render that swaps the views.
SetActiveTab(t) == ViewMounts(t, FALSE, "idle")

\* ChannelAnalysis.handleSearch: setChannel(chData).
ChannelSetChannel ==
    /\ activeTab = "CHANNEL_ANALYSIS"
    /\ chChannel = "null"
    /\ chChannel' = "UC1"
    /\ UNCHANGED <<input, activeTab, chVideos, chProcessed, chSortOption,
                   chFilterOption, chDisplayCount, chSorted, chDisplay, kwVars>>

\* ChannelAnalysis.handleSearch: setVideos(vData), on the mounted view.
ChannelVideosArrive(vData) ==
    /\ activeTab = "CHANNEL_ANALYSIS"
    /\ chChannel # "null"
    /\ ChannelSetVideos(vData)

\* KeywordAnalysis.handleSearch: setVideos(vData), on the mounted view.
KeywordVideosArrive(vData) ==
    /\ activeTab = "KEYWORD_ANALYSIS"
    /\ KeywordSetVideos(vData)

\* ChannelAnalysis: a change of filterOption, sortOption or displayCount
\* (the controls are rendered once `channel` is set), then the render.
ChSetControls(filterOption, sortOption, displayCount) ==
    /\ activeTab = "CHANNEL_ANALYSIS"
    /\ chChannel # "null"
    /\ \E r \in {ChRender(chVideos, filterOption, sortOption, displayCount)} :
           /\ chVideos' = r.videos
           /\ chProcessed' = r.processedVideos
           /\ chSorted' = r.sortedVideos
           /\ chDisplay' = r.displayVideos
    /\ chFilterOption' = filterOption
    /\ chSortOption' = sortOption
    /\ chDisplayCount' = displayCount
    /\ UNCHANGED <<input, activeTab, chChannel, kwVars>>

ChSetFilterOption(f) == f # chFilterOption /\ ChSetControls(f, chSortOption, chDisplayCount)
ChSetSortOption(s)   == s # chSortOption /\ ChSetControls(chFilterOption, s, chDisplayCount)
ChSetDisplayCount(n) == n # chDisplayCount /\ ChSetControls(chFilterOption, chSortOption, n)

\* KeywordAnalysis: a change of videoType, sortOption or displayCount (the
\* controls are rendered while videos.length > 0), then the render.
KwSetControls(videoType, sortOption, displayCount) ==
    /\ activeTab = "KEYWORD_ANALYSIS"
    /\ Len(kwVideos) > 0
    /\ \E r \in {KwRender(kwVideos, videoType, sortOption, displayCount)} :
           /\ kwVideos' = r.videos
           /\ kwProcessed' = r.processedVideos
           /\ kwDisplay' = r.displayVideos
    /\ kwVideoType' = videoType
    /\ kwSortOption' = sortOption
    /\ kwDisplayCount' = displayCount
    /\ UNCHANGED <<input, activeTab, chVars>>

KwSetVideoType(t)    == t # kwVideoType /\ KwSetControls(t, kwSortOption, kwDisplayCount)
KwSetSortOption(s)   == s # kwSortOption /\ KwSetControls(kwVideoType, s, kwDisplayCount)
KwSetDisplayCount(n) == n # kwDisplayCount /\ KwSetControls(kwVideoType, kwSortOption, n)

\* The collections handed to the views.  A short one draws, per video, the
\* view count, the form and the day; a long one (12 or 31 videos of a page of
\* at most 50) cycles through counts, days and durations so that every sort
\* key has ties and every display count but 50 cuts the list.
ViewVideo(i, views, short, daysAgo) ==
    [id |-> i, viewCount |-> views, likeCount |-> IF daysAgo = 1 THEN 1 ELSE 4,
     commentCount |-> 0,
     duration |-> IF short THEN ShortDuration ELSE LongDuration,
     publishedAt |-> Now - daysAgo * Day]

\* <<view count, short-form, days ago>>: every pair of kinds ties on one
\* sort key or differs in form.
ViewKinds ==
    {<<1, TRUE, 1>>, <<4, FALSE, 1>>, <<1, FALSE, 2>>, <<4, TRUE, 2>>}

ShortViewInputs ==
    UNION {{[i \in 1..n |-> ViewVideo(i, f[i][1], f[i][2], f[i][3])] :
               f \in [1..n -> ViewKinds]} :
           n \in 0..MaxVideos}

DurationCycle ==
    <<ShortDuration, LongDuration, <<"P", "T", "1", "H">>, <<"P", "T", "5", "9", "S">>,
      <<"P", "1", "D">>>>

CycledVideo(i) ==
    [id |-> i, viewCount |-> (i * 3) % 5, likeCount |-> i % 3,
     commentCount |-> i % 2,
     duration |-> DurationCycle[(i % 5) + 1],
     publishedAt |-> Now - ((i * 5) % 7)]

LongViewInputs == {[i \in 1..n |-> CycledVideo(i)] : n \in {12, 31}}

ViewInputs == ShortViewInputs \cup LongViewInputs

InitView ==
    /\ RisingInit
    /\ FlowIdle
    /\ ShellIdle
    /\ UtilIdle
    /\ input \in ViewInputs
    /\ activeTab = "CHANNEL_ANALYSIS"
    /\ ChMounted
    /\ KwMounted

NextView ==
    \/ \E t \in AppTabs : SetActiveTab(t) /\ UNCHANGED <<utilVars, hostVars>>
    \/ ChannelSetChannel /\ UNCHANGED nonViewVars
    \/ ChannelVideosArrive(input) /\ UNCHANGED nonViewVars
    \/ \E f \in ChFilterOptions : ChSetFilterOption(f) /\ UNCHANGED nonViewVars
    \/ \E s \in ChSortOptions : ChSetSortOption(s) /\ UNCHANGED nonViewVars
    \/ \E n \in ChDisplayCounts : ChSetDisplayCount(n) /\ UNCHANGED nonViewVars
    \/ KeywordVideosArrive(input) /\ UNCHANGED nonViewVars
    \/ \E t \in KwVideoTypes : KwSetVideoType(t) /\ UNCHANGED nonViewVars
    \/ \E s \in KwSortOptions : KwSetSortOption(s) /\ UNCHANGED nonViewVars
    \/ \E n \in KwDisplayCounts : KwSetDisplayCount(n) /\ UNCHANGED nonViewVars

SpecView == InitView /\ [][NextView]_vars

(***************************************************************************)
(* parseDuration and the short-form classifiers applied to one duration.    *)
(***************************************************************************)

\* ChannelAnalysis.tsx: the badge of a row of the video table
ChBadge(video) == IF parseDuration(video.duration) < 180 THEN "Shorts" ELSE "Video"

\* youtubeService.searchVideosByKeyword: the shortsOnly filter
ShortsOnlyFilter(videos) ==
    JsFilter(videos, [i \in 1..Len(videos) |-> parseDuration(videos[i].duration) < 180])

\* DashboardCharts.VideoFormatChart: shortsCount and regularCount
VideoFormatChart(videos) ==
    LET shortsCount == Len(JsFilter(videos,
            [i \in 1..Len(videos) |-> parseDuration(videos[i].duration) < 180]))
    IN  [shortsCount |-> shortsCount, regularCount |-> Len(videos) - shortsCount]

\* The decimal digits of n.
RECURSIVE Digits(_)
Digits(n) ==
    IF n < 10 THEN <<DigitChars[n + 1]>>
    ELSE Digits(n \div 10) \o <<DigitChars[(n % 10) + 1]>>

NoGroup == 0 - 1

\* One group of a duration: the digits of n and the unit, or nothing.
IsoGroup(n, unit) == IF n = NoGroup THEN <<>> ELSE Digits(n) \o <<unit>>

\* The duration the service sends for h hours, m minutes and s seconds,
\* a group being left out when its value is NoGroup.
IsoDuration(h, m, s) ==
    <<"P", "T">> \o IsoGroup(h, "H") \o IsoGroup(m, "M") \o IsoGroup(s, "S")

HourValues   == {NoGroup, 0, 1, 12}
MinuteValues == {NoGroup, 2, 10, 59}
SecondValues == {NoGroup, 3, 45, 59, 180}

WellFormedDurations ==
    {IsoDuration(h, m, s) : <<h, m, s>> \in HourValues \X MinuteValues \X SecondValues}

\* Strings that are not of the form PT[nH][nM][nS].
OtherDurations ==
    {<<>>,
     <<"P", "1", "D">>,
     <<"P", "1", "D", "T", "2", "H">>,
     <<"P", "0", "D">>,
     <<"a", "b", "c">>,
     <<"1", "H", "2", "M", "3", "S">>,
     <<"p", "t", "1", "h">>,
     <<"T", "1", "H">>,
     <<"P", "T", "5", "S", "3", "M">>,
     <<"P", "T", "-", "5", "S">>,
     <<"P", "T", "1", ".", "5", "S">>,
     <<"P", "T", " ", "5", "S">>,
     <<"P", "T", "0", "7", "S">>,
     <<"x", "P", "T", "9", "S", "y">>,
     <<"P", "P", "T", "1", "M">>,
     <<"P", "T", "1", "2">>}

DurationInputs == WellFormedDurations \cup OtherDurations

\* The video whose duration is classified, next to one of 179 and one of
\* 180 seconds.
ProbeVideos(duration) ==
    <<[id |-> 1, viewCount |-> 1, likeCount |-> 1, commentCount |-> 1,
       duration |-> duration, publishedAt |-> Now],
      [id |-> 2, viewCount |-> 1, likeCount |-> 1, commentCount |-> 1,
       duration |-> ShortDuration, publishedAt |-> Now],
      [id |-> 3, viewCount |-> 1, likeCount |-> 1, commentCount |-> 1,
       duration |-> LongDuration, publishedAt |-> Now]>>

IdsOf(videos) == {videos[i].id : i \in 1..Len(videos)}

\* Every classifier of the program applied to the same collection.
Verdicts(videos) ==
    [chFilterShorts |-> IdsOf(JsFilter(videos,
         [i \in 1..Len(videos) |-> ChTypeTest("shorts", videos[i])])),
     chFilterVideo |-> IdsOf(JsFilter(videos,
         [i \in 1..Len(videos) |-> ChTypeTest("video", videos[i])])),
     chBadge |-> [i \in 1..Len(videos) |-> ChBadge(videos[i])],
     kwShorts |-> IdsOf(JsFilter(videos,
         [i \in 1..Len(videos) |-> KwTypeTest("shorts", videos[i])])),
     kwVideo |-> IdsOf(JsFilter(videos,
         [i \in 1..Len(videos) |-> KwTypeTest("video", videos[i])])),
     shortsOnly |-> IdsOf(ShortsOnlyFilter(videos)),
     formatChart |-> VideoFormatChart(videos)]

\* parseDuration(duration) is called and returns.
ParseDurationCall ==
    /\ durResult = <<>>
    /\ durResult' = <<parseDuration(durInput)>>
    /\ UNCHANGED <<durInput, durVerdicts, csvData, csvFile, csvRead>>

\* The views, the gateway and the chart classify the probe videos.
ClassifyCall ==
    /\ durVerdicts = <<>>
    /\ durVerdicts' = <<Verdicts(ProbeVideos(durInput))>>
    /\ UNCHANGED <<durInput, durResult, csvData, csvFile, csvRead>>

InitDuration ==
    /\ RisingInit
    /\ FlowIdle
    /\ ShellIdle
    /\ ScoreIdle
    /\ durInput \in DurationInputs
    /\ durResult = <<>>
    /\ durVerdicts = <<>>
    /\ csvData = <<>>
    /\ csvFile = <<>>
    /\ csvRead = <<>>

NextDuration ==
    \/ ParseDurationCall /\ UNCHANGED nonUtilVars
    \/ ClassifyCall /\ UNCHANGED nonUtilVars

SpecDuration == InitDuration /\ [][NextDuration]_vars

(***************************************************************************)
(* utils.ts: downloadCSV, and a CSV reader reading the file back.           *)
(*                                                                         *)
(* A record is the sequence of its own properties [key, value] in property *)
(* order.  A value is a string, a non-negative integer, an array of        *)
(* strings or undefined.                                                   *)
(***************************************************************************)

StrV(chars) == [kind |-> "string", str |-> chars, num |-> 0, arr |-> <<>>]
NumV(n)    == [kind |-> "number", str |-> <<>>, num |-> n, arr |-> <<>>]
ArrV(elems) == [kind |-> "array", str |-> <<>>, num |-> 0, arr |-> elems]
UndefV     == [kind |-> "undefined", str |-> <<>>, num |-> 0, arr |-> <<>>]

\* Array.prototype.join(sep) on an array of strings.
RECURSIVE Join(_, _)
Join(strs, sep) ==
    IF Len(strs) = 0 THEN <<>>
    ELSE IF Len(strs) = 1 THEN strs[1]
    ELSE strs[1] \o sep \o Join(Tail(strs), sep)

\* String(v)
JsString(v) ==
    CASE v.kind = "string" -> v.str
      [] v.kind = "number" -> Digits(v.num)
      [] v.kind = "array" -> Join(v.arr, <<",">>)
      [] OTHER -> Undefined

\* replace('"', '""'): without the g flag only the first quote is doubled.
RECURSIVE ReplaceQuotes_FirstOnly(_)
ReplaceQuotes_FirstOnly(s) ==
    IF Len(s) = 0 THEN <<>>
    ELSE IF Head(s) = "\"" THEN <<"\"", "\"">> \o Tail(s)
    ELSE <<Head(s)>> \o ReplaceQuotes_FirstOnly(Tail(s))

\* replace(/"/g, '""')
RECURSIVE ReplaceQuotes(_)
ReplaceQuotes(s) ==
    IF Len(s) = 0 THEN <<>>
    ELSE IF Head(s) = "\"" THEN <<"\"", "\"">> \o ReplaceQuotes(Tail(s))
    ELSE <<Head(s)>> \o ReplaceQuotes(Tail(s))

\* `"${String(v).replace(/"/g, '""')}"`
QuotedValue(v) == <<"\"">> \o ReplaceQuotes(JsString(v)) \o <<"\"">>

ObjectKeys(obj)   == [i \in 1..Len(obj) |-> obj[i].key]
ObjectValues(obj) == [i \in 1..Len(obj) |-> obj[i].value]

\* The byte-order marker U+FEFF, one character.
Bom == "BOM"

\* downloadCSV: the text of the blob, or <<>> when nothing is downloaded.
DownloadCSV(data) ==
    IF Len(data) = 0 THEN <<>>
    ELSE LET headers == Join(ObjectKeys(data[1]), <<",">>)
             rows == [i \in 1..Len(data) |->
                         Join([j \in 1..Len(data[i]) |->
                                  QuotedValue(ObjectValues(data[i])[j])], <<",">>)]
             csvContent == Join(<<headers>> \o rows, <<"\n">>)
         IN  <<<<Bom>> \o csvContent>>

\* A reader of RFC 4180 text: fields separated by commas, records by line
\* breaks; a field that starts with a quote runs to the closing quote, a
\* doubled quote inside it standing for one quote.  A quote inside a plain
\* field, text after a closing quote and a missing closing quote are
\* errors.
RECURSIVE ReadQuoted(_, _, _)
ReadQuoted(t, i, field) ==
    IF i > Len(t) THEN [ok |-> FALSE, field |-> field, next |-> i]
    ELSE IF t[i] = "\""
         THEN IF i + 1 <= Len(t) /\ t[i + 1] = "\""
              THEN ReadQuoted(t, i + 2, Append(field, "\""))
              ELSE [ok |-> TRUE, field |-> field, next |-> i + 1]
         ELSE ReadQuoted(t, i + 1, Append(field, t[i]))

RECURSIVE ReadPlain(_, _, _)
ReadPlain(t, i, field) ==
    IF i > Len(t) \/ t[i] \in {",", "\n"}
    THEN [ok |-> TRUE, field |-> field, next |-> i]
    ELSE IF t[i] = "\"" THEN [ok |-> FALSE, field |-> field, next |-> i]
    ELSE ReadPlain(t, i + 1, Append(field, t[i]))

ReadField(t, i) ==
    IF i <= Len(t) /\ t[i] = "\"" THEN ReadQuoted(t, i + 1, <<>>)
    ELSE ReadPlain(t, i, <<>>)

RECURSIVE ReadRecords(_, _, _, _)
ReadRecords(t, i, row, rows) ==
    LET f == ReadField(t, i)
    IN  IF ~f.ok THEN [ok |-> FALSE, rows |-> <<>>]
        ELSE IF f.next > Len(t)
             THEN [ok |-> TRUE, rows |-> Append(rows, Append(row, f.field))]
        ELSE IF t[f.next] = ","
             THEN ReadRecords(t, f.next + 1, Append(row, f.field), rows)
        ELSE IF t[f.next] = "\n"
             THEN ReadRecords(t, f.next + 1, <<>>, Append(rows, Append(row, f.field)))
        ELSE [ok |-> FALSE, rows |-> <<>>]

\* The reader applied to a file: the byte-order marker is skipped.
CsvReader(file) ==
    ReadRecords(IF Len(file) > 0 /\ file[1] = Bom THEN Tail(file) ELSE file,
                1, <<>>, <<>>)

\* Most records handed to one export.
MaxRows == 2

CsvTitles ==
    {<<>>,
     <<"\"">>,
     <<",">>,
     <<"a", "\"", "b", ",", "c">>,
     <<"\"", "x", "\"">>,
     <<"l", "1", "\n", "l", "2">>}

CsvTags == {<<>>, <<<<"a">>, <<"s", "\"", "h", "\"">>>>}

\* A scored video as the views hand it to downloadCSV, cut to five of its
\* properties.
CsvRecord(title, tags) ==
    <<[key |-> <<"i", "d">>, value |-> StrV(<<"v", "1">>)],
      [key |-> <<"t", "i", "t", "l", "e">>, value |-> StrV(title)],
      [key |-> <<"t", "h", "u", "m", "b", "n", "a", "i", "l">>,
       value |-> IF Len(tags) = 0 THEN UndefV ELSE StrV(<<"u">>)],
      [key |-> <<"v", "i", "e", "w", "C", "o", "u", "n", "t">>,
       value |-> NumV(Len(title) * 250)],
      [key |-> <<"t", "a", "g", "s">>, value |-> ArrV(tags)]>>

CsvRecords == {CsvRecord(title, tags) : <<title, tags>> \in CsvTitles \X CsvTags}

CsvInputs == UNION {[1..n -> CsvRecords] : n \in 0..MaxRows}

\* downloadCSV(data, filename) runs.
DownloadCsvCall ==
    /\ csvFile = <<>>
    /\ Len(csvData) > 0
    /\ csvFile' = DownloadCSV(csvData)
    /\ UNCHANGED <<csvData, csvRead, durInput, durResult, durVerdicts>>

\* The downloaded file is read back.
ReadCsvFile ==
    /\ csvFile # <<>>
    /\ csvRead = <<>>
    /\ csvRead' = <<CsvReader(csvFile[1])>>
    /\ UNCHANGED <<csvData, csvFile, durInput, durResult, durVerdicts>>

InitCsv ==
    /\ RisingInit
    /\ FlowIdle
    /\ ShellIdle
    /\ ScoreIdle
    /\ durInput = <<>>
    /\ durResult = <<>>
    /\ durVerdicts = <<>>
    /\ csvData \in CsvInputs
    /\ csvFile = <<>>
    /\ csvRead = <<>>

NextCsv ==
    \/ DownloadCsvCall /\ UNCHANGED nonUtilVars
    \/ ReadCsvFile /\ UNCHANGED nonUtilVars

SpecCsv == InitCsv /\ [][NextCsv]_vars

(***************************************************************************)
(* handleSearch of the three views: one action per reply of a fetch that   *)
(* the handler or the gateway it called awaits, and one per analyze* call.  *)
(* A gateway of youtubeService is computed at each reply from the fetch it  *)
(* waits on.  A query and a stored data key are present (lines 131, 61 and  *)
(* 49 return otherwise).                                                    *)
(***************************************************************************)

\* What one fetch() of the remote data gateway may come to.  A network
\* error rejects fetch().  An HTTP error response resolves it: its body is
\* the API's JSON error object, which has no `items`, or it is not JSON at
\* all (the error page of a proxy) and res.json() rejects.
NetworkError  == [kind |-> "network error", body |-> Absent]
HttpError     == [kind |-> "http error", body |-> Absent]
HttpErrorPage == [kind |-> "http error page", body |-> Absent]
Ok(items)     == [kind |-> "ok", body |-> Present(items)]

FailedReplies == {NetworkError, HttpError, HttpErrorPage}
FailureKinds  == {r.kind : r \in FailedReplies}

\* `await fetch(url)` then `await res.json()`: res.ok is never read.
FetchJson(reply) ==
    [threw |-> reply.kind \in {"network error", "http error page"}, data |-> reply.body]

\* How a gateway call goes on when the fetch it awaits got its reply: it
\* throws, it returns a value, or it awaits its next fetch.
Thrown          == [to |-> "threw", value |-> <<>>]
Returned(value) == [to |-> "returned", value |-> value]
Awaits(fetch)   == [to |-> fetch, value |-> <<>>]

\* getVideoDetails up to its fetch (line 118): no request for no ids.
GetVideoDetailsCall(videoIds, fetch) ==
    IF Len(videoIds) = 0 THEN Returned(<<>>) ELSE Awaits(fetch)

\* getVideoDetails from the reply of its fetch on (lines 121-139).
GetVideoDetails(reply) ==
    LET f == FetchJson(reply)
    IN  IF f.threw THEN Thrown ELSE Returned(GetVideoDetailsResult(f.data))

\* getChannelDetails from the reply of its fetch on: null, or the channel
\* of the first item (its id).
GetChannelDetails(reply) ==
    LET f == FetchJson(reply)
    IN  IF f.threw THEN Thrown
        ELSE IF ~f.data.hasItems \/ Len(f.data.items) = 0 THEN Returned("null")
        ELSE Returned(f.data.items[1].id)

\* searchChannelByName at the reply of the fetch it awaits: its own search
\* (lines 17-23) or the one of getChannelDetails (lines 28-44).
SearchChannelByName(at, reply) ==
    IF at = "searchChannelByName"
    THEN LET f == FetchJson(reply)
         IN  IF f.threw THEN Thrown
             ELSE IF ~f.data.hasItems \/ Len(f.data.items) = 0 THEN Returned("null")
             ELSE Awaits("getChannelDetails")
    ELSE GetChannelDetails(reply)

VideoIdsOf(items) == [i \in 1..Len(items) |-> items[i].videoId]

\* getChannelVideos at the reply of the fetch it awaits: the channel's
\* (lines 49-53), the playlist's (lines 56-62) or the one of getVideoDetails.
GetChannelVideos(at, reply) ==
    IF at = "getChannelVideos"
    THEN LET ch == FetchJson(reply)
         IN  IF ch.threw THEN Thrown
             ELSE IF ~ch.data.hasItems \/ Len(ch.data.items) = 0 THEN Returned(<<>>)
             ELSE Awaits("getChannelVideos.playlistItems")
    ELSE IF at = "getChannelVideos.playlistItems"
    THEN LET pl == FetchJson(reply)
         IN  IF pl.threw THEN Thrown
             ELSE IF ~pl.data.hasItems THEN Returned(<<>>)
             ELSE GetVideoDetailsCall(VideoIdsOf(pl.data.items),
                                      "getChannelVideos.getVideoDetails")
    ELSE GetVideoDetails(reply)

\* videos.filter of lines 110-112, applied to what getVideoDetails returned.
ShortsOnly(shortsOnly, d) ==
    IF d.to = "returned" /\ shortsOnly THEN Returned(ShortsOnlyFilter(d.value)) ELSE d

\* searchVideosByKeyword at the reply of the fetch it awaits: its search
\* (lines 102-108) or the one of getVideoDetails (lines 108-114).
SearchVideosByKeyword(shortsOnly, at, reply) ==
    IF at = "searchVideosByKeyword"
    THEN LET f == FetchJson(reply)
         IN  IF f.threw THEN Thrown
             ELSE IF ~f.data.hasItems THEN Returned(<<>>)
             ELSE ShortsOnly(shortsOnly,
                             GetVideoDetailsCall(VideoIdsOf(f.data.items),
                                                 "searchVideosByKeyword.getVideoDetails"))
    ELSE ShortsOnly(shortsOnly, GetVideoDetails(reply))

\* The replies drawn for each fetch.
FlowVideoItem(i) ==
    [id |-> 100 + i,
     channelId |-> 1,
     viewCount |-> IF i % 2 = 1 THEN <<"1", "0">> ELSE <<"4">>,
     likeCount |-> <<"7">>,
     commentCount |-> Undefined,
     duration |-> IF i % 2 = 1 THEN ShortDuration ELSE LongDuration,
     publishedAt |-> Now - i]

ChannelSearchReplies == FailedReplies \cup {Ok(<<>>), Ok(<<[channelId |-> "UC1"]>>)}
ChannelDetailReplies == FailedReplies \cup {Ok(<<>>), Ok(<<[id |-> "UC1", uploads |-> "UU1"]>>)}
VideoIdReplies ==
    FailedReplies \cup {Ok([i \in 1..n |-> [videoId |-> 100 + i]]) : n \in 0..MaxVideos}
VideoReplies ==
    FailedReplies \cup {Ok([i \in 1..n |-> FlowVideoItem(i)]) : n \in 0..MaxVideos}

\* The replies drawn for the fetch a handler is waiting on.
SearchChannelReplies(at) ==
    IF at = "searchChannelByName" THEN ChannelSearchReplies ELSE ChannelDetailReplies
ChannelVideosReplies(at) ==
    IF at = "getChannelVideos" THEN ChannelDetailReplies
    ELSE IF at = "getChannelVideos.playlistItems" THEN VideoIdReplies
    ELSE VideoReplies
KeywordSearchReplies(at) ==
    IF at = "searchVideosByKeyword" THEN VideoIdReplies ELSE VideoReplies

\* How one analyze* call may go: the gateway's text is the JSON of a report
\* or the JSON text `null`, no Gemini key is stored, generateContent fails,
\* or the text is not JSON.
AiOutcomes == {"report", "null", "no key", "remote error", "unparseable"}

\* The line the catch of an analyze* function writes (part_002 line 139).
GeminiErrorLine == "Gemini API Error:"

\* geminiService.analyze*: getGenAI() throws without a stored key, before
\* the try; a failed generateContent or JSON.parse is caught, logged with
\* console.error and rethrown; JSON.parse of `null` returns null.  `value`
\* is <<>> for null and `log` holds the console.error lines of the call.
Analyze(outcome) ==
    IF outcome = "no key" THEN [threw |-> TRUE, value |-> <<>>, log |-> <<>>]
    ELSE IF outcome \in {"remote error", "unparseable"}
    THEN [threw |-> TRUE, value |-> <<>>, log |-> <<GeminiErrorLine>>]
    ELSE IF outcome = "null" THEN [threw |-> FALSE, value |-> <<>>, log |-> <<>>]
    ELSE [threw |-> FALSE, value |-> <<outcome>>, log |-> <<>>]

AiCall(fn, videos) == [fn |-> fn, videos |-> Len(videos)]

\* The alert() texts.
ChNotFoundNotice == "channel not found"
ChFailureNotice  == "channel not found or API quota exceeded"
KwFailureNotice  == "error while fetching data"
OpFailureNotice  == "error during search and analysis"

(***************************************************************************)
(* ChannelAnalysis.handleSearch                                             *)
(***************************************************************************)

\* Lines 133-141: the state is reset and searchChannelByName awaited.  The
\* form is submitted through its button, which is disabled while `loading`
\* (line 424), and the effect calls handleSearch in the first render only.
\* An invocation that a view unmounted since left in flight goes on beside
\* the new one.
ChHandleSearch ==
    /\ activeTab = "CHANNEL_ANALYSIS"
    /\ ~loading
    /\ CanOvertake
    /\ overtaken' = Overtaking
    /\ detached' = FALSE
    /\ loading' = TRUE
    /\ chChannel' = "null"
    /\ \E r \in {ChRender(<<>>, chFilterOption, chSortOption, chDisplayCount)} :
           /\ chVideos' = r.videos
           /\ chProcessed' = r.processedVideos
           /\ chSorted' = r.sortedVideos
           /\ chDisplay' = r.displayVideos
    /\ report' = <<>>
    /\ alerts' = <<>>
    /\ errorLog' = <<>>
    /\ aiCalls' = <<>>
    /\ aiSettled' = <<>>
    /\ remote' = <<>>
    /\ videoSummaries' = [id \in SummaryIds |-> <<>>]
    /\ wfPc' = "searchChannelByName"
    /\ NoRisingLocals
    /\ UNCHANGED <<analyzing, opChannels, hasSearched, input, activeTab, chSortOption,
                   chFilterOption, chDisplayCount, kwVars, loadingSummaries,
                   summaryInFlight, summaryLeft, summaryOutcome>>

\* The fetches awaited inside searchChannelByName and getChannelVideos.
ChannelLookupFetches == {"searchChannelByName", "getChannelDetails"}
ChannelVideosFetches ==
    {"getChannelVideos", "getChannelVideos.playlistItems", "getChannelVideos.getVideoDetails"}

\* handleSearch reading chData.id without the test of chData: for null the
\* read throws and the outer catch reports a failure.
ChChannelSettles_NoNullTest(reply) ==
    /\ wfPc \in ChannelLookupFetches
    /\ remote' = Append(remote, reply.kind)
    /\ \E chData \in {SearchChannelByName(wfPc, reply)} :
           IF chData.to = "threw" \/ (chData.to = "returned" /\ chData.value = "null")
           THEN /\ errorLog' = Append(errorLog, "error")
                /\ alerts' = Append(alerts, ChFailureNotice)
                /\ loading' = SetState(loading, FALSE)
                /\ wfPc' = "done"
                /\ UNCHANGED chChannel
           ELSE IF chData.to = "returned"
           THEN /\ chChannel' = SetState(chChannel, chData.value)
                /\ wfPc' = "getChannelVideos"
                /\ UNCHANGED <<errorLog, alerts, loading>>
           ELSE /\ wfPc' = chData.to
                /\ UNCHANGED <<errorLog, alerts, loading, chChannel>>
    /\ UNCHANGED <<aiSettled, analyzing, report, opChannels, hasSearched, aiCalls, input,
                   activeTab, chVideos, chProcessed, chSortOption, chFilterOption,
                   chDisplayCount, chSorted, chDisplay, kwVars, detached, overtaken>>

\* Lines 141-144 and 157-165: a fetch of searchChannelByName gets its
\* reply.  The gateway awaits its next fetch, or it settles and the handler
\* runs on: to its catch, to the not-found notice, or to getChannelVideos.
ChChannelSettles(reply) ==
    /\ wfPc \in ChannelLookupFetches
    /\ remote' = Append(remote, reply.kind)
    /\ \E chData \in {SearchChannelByName(wfPc, reply)} :
           IF chData.to = "threw"
           THEN /\ errorLog' = Append(errorLog, "error")
                /\ alerts' = Append(alerts, ChFailureNotice)
                /\ loading' = SetState(loading, FALSE)
                /\ wfPc' = "done"
                /\ UNCHANGED chChannel
           ELSE IF chData.to = "returned" /\ chData.value = "null"
           THEN /\ alerts' = Append(alerts, ChNotFoundNotice)
                /\ loading' = SetState(loading, FALSE)
                /\ wfPc' = "done"
                /\ UNCHANGED <<errorLog, chChannel>>
           ELSE IF chData.to = "returned"
           THEN /\ chChannel' = SetState(chChannel, chData.value)
                /\ wfPc' = "getChannelVideos"
                /\ UNCHANGED <<errorLog, alerts, loading>>
           ELSE /\ wfPc' = chData.to
                /\ UNCHANGED <<errorLog, alerts, loading, chChannel>>
    /\ UNCHANGED <<aiSettled, analyzing, report, opChannels, hasSearched, aiCalls, input,
                   activeTab, chVideos, chProcessed, chSortOption, chFilterOption,
                   chDisplayCount, chSorted, chDisplay, kwVars, detached, overtaken>>

\* Lines 144-150 and 160-165: a fetch of getChannelVideos gets its reply.
\* The gateway awaits its next fetch, or it settles: the videos are stored
\* and analyzeChannelGrowth awaited, or the catch is reached.
ChVideosSettle(reply) ==
    /\ wfPc \in ChannelVideosFetches
    /\ remote' = Append(remote, reply.kind)
    /\ \E vData \in {GetChannelVideos(wfPc, reply)} :
           IF vData.to = "threw"
           THEN /\ errorLog' = Append(errorLog, "error")
                /\ alerts' = Append(alerts, ChFailureNotice)
                /\ loading' = SetState(loading, FALSE)
                /\ wfPc' = "done"
                /\ UNCHANGED <<analyzing, aiCalls, scoreVars, viewVars>>
           ELSE IF vData.to = "returned"
           THEN /\ IF detached THEN UNCHANGED <<scoreVars, viewVars>>
                   ELSE ChannelSetVideos(vData.value)
                /\ analyzing' = SetState(analyzing, TRUE)
                /\ aiCalls' = Append(aiCalls, AiCall("analyzeChannelGrowth", vData.value))
                /\ wfPc' = "analyzeChannelGrowth"
                /\ UNCHANGED <<errorLog, alerts, loading>>
           ELSE /\ wfPc' = vData.to
                /\ UNCHANGED <<errorLog, alerts, loading, analyzing, aiCalls, scoreVars,
                               viewVars>>
    /\ UNCHANGED <<aiSettled, report, opChannels, hasSearched, detached, overtaken>>

\* Lines 150-156 and 163-165: analyzeChannelGrowth settles inside the inner
\* try; both finally blocks run.
ChAnalysisSettles(outcome) ==
    /\ wfPc = "analyzeChannelGrowth"
    /\ \E aiReport \in {Analyze(outcome)} :
           IF aiReport.threw
           THEN /\ errorLog' = Append(errorLog \o aiReport.log, "err")
                /\ UNCHANGED report
           ELSE /\ report' = SetState(report, aiReport.value)
                /\ UNCHANGED errorLog
    /\ analyzing' = SetState(analyzing, FALSE)
    /\ loading' = SetState(loading, FALSE)
    /\ aiSettled' = <<outcome>>
    /\ wfPc' = "done"
    /\ UNCHANGED <<opChannels, hasSearched, alerts, aiCalls, remote, scoreVars, viewVars,
                   detached, overtaken>>

(***************************************************************************)
(* KeywordAnalysis.handleSearch                                             *)
(***************************************************************************)

\* Lines 63-71: the state is reset and searchVideosByKeyword awaited.  The
\* form is submitted through its button, which is disabled while `loading`.
KwHandleSearch ==
    /\ activeTab = "KEYWORD_ANALYSIS"
    /\ ~loading
    /\ CanOvertake
    /\ overtaken' = Overtaking
    /\ detached' = FALSE
    /\ loading' = TRUE
    /\ \E r \in {KwRender(<<>>, kwVideoType, kwSortOption, kwDisplayCount)} :
           /\ kwVideos' = r.videos
           /\ kwProcessed' = r.processedVideos
           /\ kwDisplay' = r.displayVideos
    /\ report' = <<>>
    /\ alerts' = <<>>
    /\ errorLog' = <<>>
    /\ aiCalls' = <<>>
    /\ aiSettled' = <<>>
    /\ remote' = <<>>
    /\ videoSummaries' = [id \in SummaryIds |-> <<>>]
    /\ wfPc' = "searchVideosByKeyword"
    /\ NoRisingLocals
    /\ UNCHANGED <<analyzing, opChannels, hasSearched, input, activeTab, kwVideoType,
                   kwSortOption, kwDisplayCount, chVars, loadingSummaries,
                   summaryInFlight, summaryLeft, summaryOutcome>>

\* The fetches awaited inside searchVideosByKeyword.
KeywordSearchFetches == {"searchVideosByKeyword", "searchVideosByKeyword.getVideoDetails"}

\* Lines 71-76 and 84-89: a fetch of searchVideosByKeyword gets its reply.
\* The gateway awaits its next fetch, or it settles: the videos are stored
\* and analyzeKeywordMarket awaited, or the catch is reached.
KwVideosSettle(reply) ==
    /\ wfPc \in KeywordSearchFetches
    /\ remote' = Append(remote, reply.kind)
    /\ \E vData \in {SearchVideosByKeyword(FALSE, wfPc, reply)} :
           IF vData.to = "threw"
           THEN /\ errorLog' = Append(errorLog, "error")
                /\ alerts' = Append(alerts, KwFailureNotice)
                /\ loading' = SetState(loading, FALSE)
                /\ wfPc' = "done"
                /\ UNCHANGED <<analyzing, aiCalls, scoreVars, viewVars>>
           ELSE IF vData.to = "returned"
           THEN /\ IF detached THEN UNCHANGED <<scoreVars, viewVars>>
                   ELSE KeywordSetVideos(vData.value)
                /\ analyzing' = SetState(analyzing, TRUE)
                /\ aiCalls' = Append(aiCalls, AiCall("analyzeKeywordMarket", vData.value))
                /\ wfPc' = "analyzeKeywordMarket"
                /\ UNCHANGED <<errorLog, alerts, loading>>
           ELSE /\ wfPc' = vData.to
                /\ UNCHANGED <<errorLog, alerts, loading, analyzing, aiCalls, scoreVars,
                               viewVars>>
    /\ UNCHANGED <<aiSettled, report, opChannels, hasSearched, detached, overtaken>>

\* Lines 76-82 and 87-89: analyzeKeywordMarket settles inside the inner try.
KwAnalysisSettles(outcome) ==
    /\ wfPc = "analyzeKeywordMarket"
    /\ \E aiReport \in {Analyze(outcome)} :
           IF aiReport.threw
           THEN /\ errorLog' = Append(errorLog \o aiReport.log, "err")
                /\ UNCHANGED report
           ELSE /\ report' = SetState(report, aiReport.value)
                /\ UNCHANGED errorLog
    /\ analyzing' = SetState(analyzing, FALSE)
    /\ loading' = SetState(loading, FALSE)
    /\ aiSettled' = <<outcome>>
    /\ wfPc' = "done"
    /\ UNCHANGED <<opChannels, hasSearched, alerts, aiCalls, remote, scoreVars, viewVars,
                   detached, overtaken>>

(***************************************************************************)
(* OpportunityFinder.handleSearch, around the steps of findRisingChannels   *)
(***************************************************************************)

\* Lines 51-59: the state is reset and findRisingChannels invoked, with
\* fresh locals, up to its search request.  The Enter key of the topic field
\* (lines 175-179) calls handleSearch whatever `loading` is: an invocation
\* that is in flight goes on beside the new one.
OpHandleSearch(p) ==
    /\ activeTab = "OPPORTUNITY_FINDER"
    /\ CanOvertake
    /\ overtaken' = Overtaking
    /\ detached' = FALSE
    /\ loading' = TRUE
    /\ opChannels' = <<>>
    /\ report' = <<>>
    /\ hasSearched' = TRUE
    /\ alerts' = <<>>
    /\ errorLog' = <<>>
    /\ aiCalls' = <<>>
    /\ aiSettled' = <<>>
    /\ remote' = <<>>
    /\ wfPc' = "findRisingChannels"
    /\ pc' = "search"
    /\ period' = p
    /\ \E shift \in OffsetShifts : channelCreationCutoff' = CreationCutoff(p, shift)
    /\ calls' = <<Call("search", <<>>)>>
    /\ searchItems' = Absent
    /\ videoMap' = <<>>
    /\ channelIds' = <<>>
    /\ chItems' = Absent
    /\ videoDetails' = <<>>
    /\ risingChannels' = <<>>
    /\ videoSummaries' = [id \in SummaryIds |-> <<>>]
    /\ UNCHANGED <<analyzing, opInvocations, opFinished, loadingSummaries, summaryInFlight,
                   summaryLeft, summaryOutcome>>

\* The await that settles next is one of overtaken invocation i: it is the
\* one followed from here on.  The one followed so far is kept in its place
\* when it is in flight, and followed no further when it has run to its end
\* or when none was called.  No state of the view changes.
TurnTo(i) ==
    /\ i \in 1..Len(overtaken)
    /\ overtaken' = IF SearchInFlight THEN [overtaken EXCEPT ![i] = Suspended]
                    ELSE SubSeq(overtaken, 1, i - 1) \o SubSeq(overtaken, i + 1, Len(overtaken))
    /\ \E inv \in {overtaken[i]} :
           /\ wfPc' = inv.wfPc
           /\ pc' = inv.pc
           /\ period' = inv.period
           /\ channelCreationCutoff' = inv.channelCreationCutoff
           /\ searchItems' = inv.searchItems
           /\ videoMap' = inv.videoMap
           /\ channelIds' = inv.channelIds
           /\ chItems' = inv.chItems
           /\ videoDetails' = inv.videoDetails
           /\ risingChannels' = inv.risingChannels
           /\ calls' = inv.calls
           /\ alerts' = inv.alerts
           /\ errorLog' = inv.errorLog
           /\ aiCalls' = inv.aiCalls
           /\ aiSettled' = inv.aiSettled
           /\ remote' = inv.remote
           /\ detached' = inv.detached
    /\ UNCHANGED <<loading, analyzing, report, opChannels, hasSearched, opInvocations,
                   opFinished, summaryVars>>

\* Lines 67-84, once a step of findRisingChannels was taken on a reply of
\* the given kind: the handler stays suspended, goes on with the results, or
\* reaches its catch.
OpResumes(kind) ==
    /\ remote' = Append(remote, kind)
    /\ IF pc' = "done"
       THEN /\ opChannels' = SetState(opChannels, risingChannels')
            /\ IF Len(risingChannels') > 0
               THEN /\ aiCalls' = Append(aiCalls, AiCall("analyzeTopicOpportunity",
                                                         risingChannels'))
                    /\ wfPc' = "analyzeTopicOpportunity"
                    /\ UNCHANGED loading
               ELSE /\ loading' = SetState(loading, FALSE)
                    /\ wfPc' = "done"
                    /\ UNCHANGED aiCalls
            /\ UNCHANGED <<errorLog, alerts>>
       ELSE IF pc' = "rejected"
       THEN /\ errorLog' = Append(errorLog, "error")
            /\ alerts' = Append(alerts, OpFailureNotice)
            /\ loading' = SetState(loading, FALSE)
            /\ wfPc' = "done"
            /\ UNCHANGED <<opChannels, aiCalls>>
       ELSE UNCHANGED <<opChannels, aiCalls, errorLog, alerts, loading, wfPc>>
    /\ UNCHANGED <<aiSettled, analyzing, report, hasSearched, detached, overtaken>>

\* The kind of reply that carries a JSON body.
BodyKind(resp) == IF resp.hasItems THEN "ok" ELSE "http error"

OpSearchReturns(resp) ==
    /\ wfPc = "findRisingChannels"
    /\ SearchReturns(resp)
    /\ OpResumes(BodyKind(resp))

OpChannelsReturn(resp) ==
    /\ wfPc = "findRisingChannels"
    /\ ChannelsReturn(resp)
    /\ OpResumes(BodyKind(resp))

OpVideosReturn(resp) ==
    /\ wfPc = "findRisingChannels"
    /\ VideosReturn(resp)
    /\ OpResumes(BodyKind(resp))

OpRejects(kind) ==
    /\ wfPc = "findRisingChannels"
    /\ Rejects
    /\ OpResumes(kind)

\* handleSearch with setLoading(false) as the last statement of the try
\* instead of the finally block.
OpAnalysisSettles_NoFinally(outcome) ==
    /\ wfPc = "analyzeTopicOpportunity"
    /\ \E analysis \in {Analyze(outcome)} :
           IF analysis.threw
           THEN /\ errorLog' = Append(errorLog \o analysis.log, "error")
                /\ alerts' = Append(alerts, OpFailureNotice)
                /\ UNCHANGED <<report, loading>>
           ELSE /\ report' = SetState(report, analysis.value)
                /\ loading' = SetState(loading, FALSE)
                /\ UNCHANGED <<errorLog, alerts>>
    /\ aiSettled' = <<outcome>>
    /\ wfPc' = "done"
    /\ UNCHANGED <<analyzing, opChannels, hasSearched, aiCalls, remote, risingVars, detached,
                   overtaken>>

\* Lines 75-84: analyzeTopicOpportunity settles inside the handler's one try.
OpAnalysisSettles(outcome) ==
    /\ wfPc = "analyzeTopicOpportunity"
    /\ \E analysis \in {Analyze(outcome)} :
           IF analysis.threw
           THEN /\ errorLog' = Append(errorLog \o analysis.log, "error")
                /\ alerts' = Append(alerts, OpFailureNotice)
                /\ UNCHANGED report
           ELSE /\ report' = SetState(report, analysis.value)
                /\ UNCHANGED <<errorLog, alerts>>
    /\ loading' = SetState(loading, FALSE)
    /\ aiSettled' = <<outcome>>
    /\ wfPc' = "done"
    /\ UNCHANGED <<analyzing, opChannels, hasSearched, aiCalls, remote, risingVars, detached,
                   overtaken>>

\* The search lists drawn for findRisingChannels under handleSearch.
FlowSearchResponses ==
    {Absent} \cup {Present(SearchItemsOf(chs)) : chs \in {<<>>, <<1>>, <<1, 2>>}}

\* A remote call awaited by a handleSearch returns or rejects and the handler
\* runs on to its next await or to its end.
FlowSettles ==
    \/ \E reply \in SearchChannelReplies(wfPc) :
           ChChannelSettles(reply) /\ UNCHANGED nonFlowVars
    \/ \E reply \in ChannelVideosReplies(wfPc) :
           ChVideosSettle(reply) /\ UNCHANGED nonFlowVars
    \/ \E outcome \in AiOutcomes : ChAnalysisSettles(outcome) /\ UNCHANGED nonFlowVars
    \/ \E reply \in KeywordSearchReplies(wfPc) :
           KwVideosSettle(reply) /\ UNCHANGED nonFlowVars
    \/ \E outcome \in AiOutcomes : KwAnalysisSettles(outcome) /\ UNCHANGED nonFlowVars
    \/ \E resp \in FlowSearchResponses :
           OpSearchReturns(resp) /\ UNCHANGED <<scoreVars, viewVars, utilVars, shellVars>>
    \/ \E resp \in ChannelResponses(channelIds, TRUE) :
           OpChannelsReturn(resp) /\ UNCHANGED <<scoreVars, viewVars, utilVars, shellVars>>
    \/ \E resp \in VideoResponses(searchItems.items, VideoIdsToFetch(videoMap), TRUE) :
           OpVideosReturn(resp) /\ UNCHANGED <<scoreVars, viewVars, utilVars, shellVars>>
    \/ \E kind \in {"network error", "http error page"} :
           OpRejects(kind) /\ UNCHANGED <<scoreVars, viewVars, utilVars, shellVars>>
    \/ \E outcome \in AiOutcomes :
           OpAnalysisSettles(outcome) /\ UNCHANGED <<scoreVars, viewVars, utilVars, shellVars>>

\* The periods searched with: a bounded one and the unbounded one.
FlowPeriods == {"1y", "all"}

\* Every reply of every fetch is drawn here, for one invocation at a time:
\* no search is started while one is in flight, be it in the view shown or
\* left by a view that was unmounted.  Searches that overlap are followed in
\* SpecApp, SpecNav and SpecRace.
NextFlow ==
    \/ \E t \in AppTabs : SetActiveTab(t) /\ UNCHANGED <<utilVars, hostVars>>
    \/ /\ ~SearchInFlight
       /\ ChHandleSearch
       /\ UNCHANGED <<utilVars, hostVars, raceVars>>
    \/ /\ ~SearchInFlight
       /\ KwHandleSearch
       /\ UNCHANGED <<utilVars, hostVars, raceVars>>
    \/ \E p \in FlowPeriods :
           /\ ~SearchInFlight
           /\ OpHandleSearch(p)
           /\ UNCHANGED <<scoreVars, viewVars, utilVars, hostVars>>
    \/ FlowSettles

SpecFlow == Init /\ [][NextFlow]_vars

\* Every remote call eventually returns or rejects: a handler waiting on one
\* is resumed.
SpecFlowFair == SpecFlow /\ WF_vars(FlowSettles)

(***************************************************************************)
(* utils.ts: encryptKey and decryptKey.  A string is the sequence of its    *)
(* UTF-16 code units; a Base64 text is the sequence of its characters.      *)
(***************************************************************************)

RECURSIVE BitXor(_, _)
\* a ^ b on non-negative integers.
BitXor(a, b) ==
    IF a = 0 THEN b
    ELSE IF b = 0 THEN a
    ELSE 2 * BitXor(a \div 2, b \div 2) + ((a + b) % 2)

\* The `^ 123` of both functions.
XorKey == 123

\* String.fromCharCode(char.charCodeAt(0) ^ 123) over every code unit.
XorChars(codes) == [i \in 1..Len(codes) |-> BitXor(codes[i], XorKey) % 65536]

Base64Alphabet ==
    <<"A", "B", "C", "D", "E", "F", "G", "H", "I", "J", "K", "L", "M",
      "N", "O", "P", "Q", "R", "S", "T", "U", "V", "W", "X", "Y", "Z",
      "a", "b", "c", "d", "e", "f", "g", "h", "i", "j", "k", "l", "m",
      "n", "o", "p", "q", "r", "s", "t", "u", "v", "w", "x", "y", "z",
      "0", "1", "2", "3", "4", "5", "6", "7", "8", "9", "+", "/">>

Base64Char(sextet) == Base64Alphabet[sextet + 1]
Base64Value(ch) == (CHOOSE i \in 1..64 : Base64Alphabet[i] = ch) - 1
IsBase64Char(ch) == \E i \in 1..64 : Base64Alphabet[i] = ch

RECURSIVE EncodeBytes(_)
\* Three bytes become four characters; a last group of one or two bytes is
\* padded with "=".
EncodeBytes(bytes) ==
    IF Len(bytes) = 0 THEN <<>>
    ELSE IF Len(bytes) = 1
    THEN <<Base64Char(bytes[1] \div 4), Base64Char((bytes[1] % 4) * 16), "=", "=">>
    ELSE IF Len(bytes) = 2
    THEN <<Base64Char(bytes[1] \div 4),
           Base64Char((bytes[1] % 4) * 16 + bytes[2] \div 16),
           Base64Char((bytes[2] % 16) * 4), "=">>
    ELSE <<Base64Char(bytes[1] \div 4),
           Base64Char((bytes[1] % 4) * 16 + bytes[2] \div 16),
           Base64Char((bytes[2] % 16) * 4 + bytes[3] \div 64),
           Base64Char(bytes[3] % 64)>>
         \o EncodeBytes(SubSeq(bytes, 4, Len(bytes)))

\* window.btoa: a code unit above 255 raises InvalidCharacterError.
Btoa(codes) ==
    IF \E i \in 1..Len(codes) : codes[i] > 255
    THEN [threw |-> TRUE, value |-> <<>>]
    ELSE [threw |-> FALSE, value |-> EncodeBytes(codes)]

RECURSIVE DecodeChars(_)
\* Four characters become three bytes; a last group of two or three
\* characters becomes one or two.
DecodeChars(chars) ==
    IF Len(chars) < 2 THEN <<>>
    ELSE LET a == Base64Value(chars[1])
             b == Base64Value(chars[2])
         IN  IF Len(chars) = 2 THEN <<a * 4 + b \div 16>>
             ELSE LET c == Base64Value(chars[3])
                  IN  IF Len(chars) = 3
                      THEN <<a * 4 + b \div 16, (b % 16) * 16 + c \div 4>>
                      ELSE <<a * 4 + b \div 16, (b % 16) * 16 + c \div 4,
                             (c % 4) * 64 + Base64Value(chars[4])>>
                           \o DecodeChars(SubSeq(chars, 5, Len(chars)))

\* The text without the one or two "=" that end a text of whole groups.
Unpadded(chars) ==
    IF Len(chars) % 4 # 0 \/ Len(chars) = 0 \/ chars[Len(chars)] # "=" THEN chars
    ELSE IF chars[Len(chars) - 1] = "=" THEN SubSeq(chars, 1, Len(chars) - 2)
    ELSE SubSeq(chars, 1, Len(chars) - 1)

\* ASCII white space: space, TAB, LF, FF and CR.
AsciiWhiteSpace == {" ", "\t", "\n", "\f", "\r"}

RECURSIVE WithoutWhiteSpace(_)
WithoutWhiteSpace(chars) ==
    IF chars = <<>> THEN <<>>
    ELSE IF Head(chars) \in AsciiWhiteSpace THEN WithoutWhiteSpace(Tail(chars))
    ELSE <<Head(chars)>> \o WithoutWhiteSpace(Tail(chars))

\* window.atob: ASCII white space is removed first; then a character outside
\* the alphabet, or a text one character over whole groups, raises
\* InvalidCharacterError.
Atob(chars) ==
    LET data == Unpadded(WithoutWhiteSpace(chars))
    IN  IF Len(data) % 4 = 1 \/ \E i \in 1..Len(data) : ~IsBase64Char(data[i])
        THEN [threw |-> TRUE, value |-> <<>>]
        ELSE [threw |-> FALSE, value |-> DecodeChars(data)]

\* encryptKey (lines 5-11): '' when btoa throws.
encryptKey(key) ==
    LET r == Btoa(XorChars(key))
    IN  IF r.threw THEN <<>> ELSE r.value

\* decryptKey (lines 13-19): '' when atob throws.
decryptKey(cipher) ==
    LET r == Atob(cipher)
    IN  IF r.threw THEN <<>> ELSE XorChars(r.value)

\* The longest key drawn.
MaxKeyLen == 3

\* The code units drawn: NUL, "A", "z", "{", U+00FF, U+0100 and U+AC00.
KeyUnits == {0, 65, 122, 123, 255, 256, 44032}

KeyInputs == UNION {[1..n -> KeyUnits] : n \in 0..MaxKeyLen}

\* encryptKey(key) is called and returns.
EncryptKeyCall ==
    /\ keyCipher = <<>>
    /\ keyCipher' = <<encryptKey(keyInput)>>
    /\ UNCHANGED <<keyInput, keyPlain>>

\* decryptKey is called on what encryptKey returned.
DecryptKeyCall ==
    /\ keyCipher # <<>>
    /\ keyPlain = <<>>
    /\ keyPlain' = <<decryptKey(keyCipher[1])>>
    /\ UNCHANGED <<keyInput, keyCipher>>

InitCodec ==
    /\ RisingInit
    /\ ScoreIdle
    /\ UtilIdle
    /\ FlowIdle
    /\ keyInput \in KeyInputs
    /\ keyCipher = <<>>
    /\ keyPlain = <<>>
    /\ AppReady
    /\ CallIdle
    /\ RaceIdle
    /\ SummaryIdle
    /\ NavIdle

nonCodecVars == <<risingVars, scoreVars, viewVars, utilVars, flowVars, appVars, ytVars,
                  geminiVars, callVars, raceVars, summaryVars, navVars>>

NextCodec ==
    \/ EncryptKeyCall /\ UNCHANGED nonCodecVars
    \/ DecryptKeyCall /\ UNCHANGED nonCodecVars

SpecCodec == InitCodec /\ [][NextCodec]_vars

(***************************************************************************)
(* App (mount effect, key button) and ApiKeyModal.                          *)
(***************************************************************************)

YtItem     == "yt_api_key"
GeminiItem == "gemini_api_key"

\* localStorage.getItem(name) used as a condition: null and '' are falsy.
HasItem(name) == localStorage[name] # <<>> /\ localStorage[name][1] # <<>>

\* The code units String.prototype.trim removes.
TrimUnits == {9, 10, 11, 12, 13, 32, 160, 5760, 8232, 8233, 8239, 8287, 12288, 65279}
                 \cup 8192..8202

\* `!key.trim()`: the key is empty or white space only.
IsBlank(key) == \A i \in 1..Len(key) : key[i] \in TrimUnits

\* The keys typed into the modal: " ", "AI" and "z".
KeyA == <<65, 73>>
KeyB == <<122>>
TypedKeys == {<<32>>, KeyA, KeyB}

\* What earlier sessions can have left in storage: handleSave* stored
\* encryptKey of a key, handleDelete* removed the item.
StoredStates ==
    [{YtItem, GeminiItem} -> {<<>>, <<encryptKey(KeyA)>>}]

\* ApiKeyModal's effect on isOpen (lines 26-52), run when the modal opens.
ModalOpens ==
    /\ ytKey' = IF HasItem(YtItem) THEN decryptKey(localStorage[YtItem][1]) ELSE <<>>
    /\ ytHasStored' = HasItem(YtItem)
    /\ ytStatus' = "idle"
    /\ ytConfirmDelete' = FALSE
    /\ geminiKey' = IF HasItem(GeminiItem) THEN decryptKey(localStorage[GeminiItem][1])
                    ELSE <<>>
    /\ geminiHasStored' = HasItem(GeminiItem)
    /\ geminiStatus' = "idle"
    /\ geminiConfirmDelete' = FALSE
    /\ UNCHANGED <<ytProbes, ytProbed, ytTimers, geminiProbes, geminiProbed, geminiTimers>>

\* App's mount effect, with the modal left closed when nothing is stored.
AppMount_NoPrompt ==
    /\ ~mounted
    /\ mounted' = TRUE
    /\ apiKey' = IF HasItem(YtItem) THEN decryptKey(localStorage[YtItem][1]) ELSE apiKey
    /\ UNCHANGED <<isKeyModalOpen, autoSearchChannel, localStorage, ytVars, geminiVars>>

\* App's mount effect (lines 26-34): a stored key becomes the active key;
\* without one the modal is opened.
AppMount ==
    /\ ~mounted
    /\ mounted' = TRUE
    /\ IF HasItem(YtItem)
       THEN /\ apiKey' = decryptKey(localStorage[YtItem][1])
            /\ UNCHANGED <<isKeyModalOpen, ytVars, geminiVars>>
       ELSE /\ isKeyModalOpen' = TRUE
            /\ ModalOpens
            /\ UNCHANGED apiKey
    /\ UNCHANGED <<autoSearchChannel, localStorage>>

\* The key button of the header (line 107).
OpenKeyModal ==
    /\ mounted
    /\ ~isKeyModalOpen
    /\ isKeyModalOpen' = TRUE
    /\ ModalOpens
    /\ UNCHANGED <<mounted, apiKey, autoSearchChannel, localStorage>>

\* onClose (line 105).
CloseKeyModal ==
    /\ isKeyModalOpen
    /\ isKeyModalOpen' = FALSE
    /\ UNCHANGED <<mounted, apiKey, autoSearchChannel, localStorage, ytVars, geminiVars>>

\* The most handleSave* calls of one session.
MaxSaves == 2

SavesSoFar == Len(ytProbes) + Len(ytProbed) + Len(geminiProbes) + Len(geminiProbed)

\* The input's onChange (line 132); the input is disabled in confirm-delete.
SetYtKey(k) ==
    /\ isKeyModalOpen
    /\ ~ytConfirmDelete
    /\ ytKey' = k
    /\ UNCHANGED <<ytStatus, ytHasStored, ytConfirmDelete, ytProbes, ytProbed, ytTimers,
                   appVars, geminiVars>>

\* validateApiKey (part_001 lines 6-13): response.ok, false when fetch rejects.
ValidateApiKey(reply) ==
    IF reply.kind = "network error" THEN FALSE ELSE reply.kind = "ok"

\* What the probe's fetch may come to.
ProbeReplies == {NetworkError, HttpError, Ok(<<>>)}

\* handleSaveYt (lines 54-57) up to its await, from the button or the Enter
\* key: neither is there in confirm-delete.
HandleSaveYt ==
    /\ isKeyModalOpen
    /\ ~ytConfirmDelete
    /\ SavesSoFar < MaxSaves
    /\ ~IsBlank(ytKey)
    /\ ytStatus' = "validating"
    /\ ytProbes' = Append(ytProbes, ytKey)
    /\ UNCHANGED <<ytKey, ytHasStored, ytConfirmDelete, ytProbed, ytTimers, appVars,
                   geminiVars>>

\* handleSaveYt storing and propagating the key whatever the probe returned.
YtProbeSettles_IgnoresProbe(i, reply) ==
    /\ i \in 1..Len(ytProbes)
    /\ ytProbes' = DropAt(ytProbes, i)
    /\ ytProbed' = Append(ytProbed, [key |-> ytProbes[i], isValid |-> ValidateApiKey(reply)])
    /\ ytStatus' = "success"
    /\ localStorage' = [localStorage EXCEPT ![YtItem] = <<encryptKey(ytProbes[i])>>]
    /\ ytHasStored' = TRUE
    /\ apiKey' = ytProbes[i]
    /\ ytTimers' = ytTimers + 1
    /\ UNCHANGED <<ytKey, ytConfirmDelete, mounted, isKeyModalOpen, autoSearchChannel,
                   geminiVars>>

\* handleSaveYt (lines 57-66) once validateApiKey returned for the i-th
\* call in flight, with the key that call was made with.
YtProbeSettles(i, reply) ==
    /\ i \in 1..Len(ytProbes)
    /\ ytProbes' = DropAt(ytProbes, i)
    /\ ytProbed' = Append(ytProbed, [key |-> ytProbes[i], isValid |-> ValidateApiKey(reply)])
    /\ IF ValidateApiKey(reply)
       THEN /\ ytStatus' = "success"
            /\ localStorage' = [localStorage EXCEPT ![YtItem] = <<encryptKey(ytProbes[i])>>]
            /\ ytHasStored' = TRUE
            /\ apiKey' = ytProbes[i]
            /\ ytTimers' = ytTimers + 1
       ELSE /\ ytStatus' = "error"
            /\ UNCHANGED <<localStorage, ytHasStored, apiKey, ytTimers>>
    /\ UNCHANGED <<ytKey, ytConfirmDelete, mounted, isKeyModalOpen, autoSearchChannel,
                   geminiVars>>

\* The callback of setTimeout(..., 1500) (line 63).
YtTimerFires ==
    /\ ytTimers > 0
    /\ ytTimers' = ytTimers - 1
    /\ ytStatus' = "idle"
    /\ UNCHANGED <<ytKey, ytHasStored, ytConfirmDelete, ytProbes, ytProbed, appVars,
                   geminiVars>>

\* The trash button (line 165), shown with a stored key outside confirm-delete.
AskDeleteYt ==
    /\ isKeyModalOpen
    /\ ~ytConfirmDelete
    /\ ytHasStored
    /\ ytConfirmDelete' = TRUE
    /\ UNCHANGED <<ytKey, ytStatus, ytHasStored, ytProbes, ytProbed, ytTimers, appVars,
                   geminiVars>>

\* The cancel button (line 152).
CancelDeleteYt ==
    /\ isKeyModalOpen
    /\ ytConfirmDelete
    /\ ytConfirmDelete' = FALSE
    /\ UNCHANGED <<ytKey, ytStatus, ytHasStored, ytProbes, ytProbed, ytTimers, appVars,
                   geminiVars>>

\* handleDeleteYt (lines 69-76), behind the button shown in confirm-delete.
HandleDeleteYt ==
    /\ isKeyModalOpen
    /\ ytConfirmDelete
    /\ localStorage' = [localStorage EXCEPT ![YtItem] = <<>>]
    /\ ytKey' = <<>>
    /\ ytHasStored' = FALSE
    /\ ytStatus' = "idle"
    /\ ytConfirmDelete' = FALSE
    /\ apiKey' = <<>>
    /\ UNCHANGED <<ytProbes, ytProbed, ytTimers, mounted, isKeyModalOpen, autoSearchChannel,
                   geminiVars>>

\* The Gemini section of the modal.
SetGeminiKey(k) ==
    /\ isKeyModalOpen
    /\ ~geminiConfirmDelete
    /\ geminiKey' = k
    /\ UNCHANGED <<geminiStatus, geminiHasStored, geminiConfirmDelete, geminiProbes,
                   geminiProbed, geminiTimers, appVars, ytVars>>

\* validateGeminiApiKey (part_002 lines 20-33): true unless generateContent
\* throws.
ValidateGeminiApiKey(outcome) == outcome # "remote error"

ProbeOutcomes == {"pong", "remote error"}

\* handleSaveGemini (lines 78-81) up to its await.
HandleSaveGemini ==
    /\ isKeyModalOpen
    /\ ~geminiConfirmDelete
    /\ SavesSoFar < MaxSaves
    /\ ~IsBlank(geminiKey)
    /\ geminiStatus' = "validating"
    /\ geminiProbes' = Append(geminiProbes, geminiKey)
    /\ UNCHANGED <<geminiKey, geminiHasStored, geminiConfirmDelete, geminiProbed,
                   geminiTimers, appVars, ytVars>>

\* handleSaveGemini (lines 81-89) once validateGeminiApiKey returned.
GeminiProbeSettles(i, outcome) ==
    /\ i \in 1..Len(geminiProbes)
    /\ geminiProbes' = DropAt(geminiProbes, i)
    /\ geminiProbed' = Append(geminiProbed, [key |-> geminiProbes[i],
                                             isValid |-> ValidateGeminiApiKey(outcome)])
    /\ IF ValidateGeminiApiKey(outcome)
       THEN /\ geminiStatus' = "success"
            /\ localStorage' = [localStorage EXCEPT
                                  ![GeminiItem] = <<encryptKey(geminiProbes[i])>>]
            /\ geminiHasStored' = TRUE
            /\ geminiTimers' = geminiTimers + 1
       ELSE /\ geminiStatus' = "error"
            /\ UNCHANGED <<localStorage, geminiHasStored, geminiTimers>>
    /\ UNCHANGED <<geminiKey, geminiConfirmDelete, mounted, apiKey, isKeyModalOpen,
                   autoSearchChannel, ytVars>>

\* The callback of setTimeout(..., 1500) (line 86).
GeminiTimerFires ==
    /\ geminiTimers > 0
    /\ geminiTimers' = geminiTimers - 1
    /\ geminiStatus' = "idle"
    /\ UNCHANGED <<geminiKey, geminiHasStored, geminiConfirmDelete, geminiProbes,
                   geminiProbed, appVars, ytVars>>

\* The trash and cancel buttons (lines 223 and 210).
AskDeleteGemini ==
    /\ isKeyModalOpen
    /\ ~geminiConfirmDelete
    /\ geminiHasStored
    /\ geminiConfirmDelete' = TRUE
    /\ UNCHANGED <<geminiKey, geminiStatus, geminiHasStored, geminiProbes, geminiProbed,
                   geminiTimers, appVars, ytVars>>

CancelDeleteGemini ==
    /\ isKeyModalOpen
    /\ geminiConfirmDelete
    /\ geminiConfirmDelete' = FALSE
    /\ UNCHANGED <<geminiKey, geminiStatus, geminiHasStored, geminiProbes, geminiProbed,
                   geminiTimers, appVars, ytVars>>

\* handleDeleteGemini (lines 92-98).
HandleDeleteGemini ==
    /\ isKeyModalOpen
    /\ geminiConfirmDelete
    /\ localStorage' = [localStorage EXCEPT ![GeminiItem] = <<>>]
    /\ geminiKey' = <<>>
    /\ geminiHasStored' = FALSE
    /\ geminiStatus' = "idle"
    /\ geminiConfirmDelete' = FALSE
    /\ UNCHANGED <<geminiProbes, geminiProbed, geminiTimers, mounted, apiKey,
                   isKeyModalOpen, autoSearchChannel, ytVars>>

\* The application before its mount effect, over what storage may hold.
AppStart ==
    /\ mounted = FALSE
    /\ apiKey = <<>>
    /\ isKeyModalOpen = FALSE
    /\ autoSearchChannel = <<>>
    /\ localStorage \in StoredStates
    /\ ModalMounted

InitKeys ==
    /\ RisingInit
    /\ ScoreIdle
    /\ UtilIdle
    /\ FlowIdle
    /\ CodecIdle
    /\ CallIdle
    /\ RaceIdle
    /\ SummaryIdle
    /\ NavIdle
    /\ AppStart

nonKeyVars == <<risingVars, scoreVars, viewVars, utilVars, flowVars, codecVars, callVars,
                raceVars, summaryVars, navVars>>

NextKeys ==
    \/ AppMount /\ UNCHANGED nonKeyVars
    \/ OpenKeyModal /\ UNCHANGED nonKeyVars
    \/ CloseKeyModal /\ UNCHANGED nonKeyVars
    \/ \E k \in TypedKeys : SetYtKey(k) /\ UNCHANGED nonKeyVars
    \/ HandleSaveYt /\ UNCHANGED nonKeyVars
    \/ \E i \in 1..MaxSaves, reply \in ProbeReplies :
           YtProbeSettles(i, reply) /\ UNCHANGED nonKeyVars
    \/ YtTimerFires /\ UNCHANGED nonKeyVars
    \/ AskDeleteYt /\ UNCHANGED nonKeyVars
    \/ CancelDeleteYt /\ UNCHANGED nonKeyVars
    \/ HandleDeleteYt /\ UNCHANGED nonKeyVars
    \/ \E k \in {KeyB} : SetGeminiKey(k) /\ UNCHANGED nonKeyVars
    \/ HandleSaveGemini /\ UNCHANGED nonKeyVars
    \/ \E i \in 1..MaxSaves, outcome \in ProbeOutcomes :
           GeminiProbeSettles(i, outcome) /\ UNCHANGED nonKeyVars
    \/ GeminiTimerFires /\ UNCHANGED nonKeyVars
    \/ AskDeleteGemini /\ UNCHANGED nonKeyVars
    \/ CancelDeleteGemini /\ UNCHANGED nonKeyVars
    \/ HandleDeleteGemini /\ UNCHANGED nonKeyVars

SpecKeys == InitKeys /\ [][NextKeys]_vars

(***************************************************************************)
(* handleSearch of the three views as it is called, from its first line.    *)
(* In OpportunityFinder it is called again while it is in flight.           *)
(***************************************************************************)

\* `!q.trim()`: the query is empty or white space only.
IsBlankText(q) == \A i \in 1..Len(q) : IsSpace(q[i])

\* The calls of handleSearch are counted modulo RequestWrap.
RequestWrap == 4

Requested(view, q) == [view |-> view, q |-> q, n |-> (requested.n + 1) % RequestWrap]

\* The queries typed: "", " " and "a".
Queries == {<<>>, <<" ">>, <<"a">>}

\* ChannelAnalysis.handleSearch without the test of apiKey.
ChSearchCall_NoKeyGuard(q) ==
    /\ requested' = Requested("CHANNEL_ANALYSIS", q)
    /\ IF IsBlankText(q)
       THEN UNCHANGED <<flowVars, risingVars, scoreVars, viewVars, summaryVars, searchQuery>>
       ELSE /\ ChHandleSearch
            /\ searchQuery' = <<q>>

\* ChannelAnalysis.handleSearch (lines 128-141), q being overrideQuery || query.
ChSearchCall(q) ==
    /\ requested' = Requested("CHANNEL_ANALYSIS", q)
    /\ IF IsBlankText(q) \/ apiKey = <<>>
       THEN UNCHANGED <<flowVars, risingVars, scoreVars, viewVars, summaryVars, searchQuery>>
       ELSE /\ ChHandleSearch
            /\ searchQuery' = <<q>>

\* The form of ChannelAnalysis is submitted (line 414); its button is
\* disabled while loading.
ChSubmit(q) ==
    /\ mounted
    /\ activeTab = "CHANNEL_ANALYSIS"
    /\ ~loading
    /\ ChSearchCall(q)

\* KeywordAnalysis.handleSearch (lines 59-71), q being the state `keyword`.
KwSearchCall(q) ==
    /\ requested' = Requested("KEYWORD_ANALYSIS", q)
    /\ IF IsBlankText(q) \/ apiKey = <<>>
       THEN UNCHANGED <<flowVars, risingVars, scoreVars, viewVars, summaryVars, searchQuery>>
       ELSE /\ KwHandleSearch
            /\ searchQuery' = <<q>>

\* The form of KeywordAnalysis is submitted (line 153).
KwSubmit(q) ==
    /\ mounted
    /\ activeTab = "KEYWORD_ANALYSIS"
    /\ ~loading
    /\ KwSearchCall(q)

\* OpportunityFinder.handleSearch (lines 47-59), q being the state `topic`.
OpSearchCall(q, p) ==
    /\ requested' = Requested("OPPORTUNITY_FINDER", q)
    /\ IF IsBlankText(q) \/ apiKey = <<>>
       THEN UNCHANGED <<flowVars, risingVars, raceVars, summaryVars, searchQuery>>
       ELSE /\ OpHandleSearch(p)
            /\ searchQuery' = <<q>>

\* The button of OpportunityFinder (line 187) or the Enter key in its input
\* (lines 175-179).
OpSubmit(q, p) ==
    /\ mounted
    /\ activeTab = "OPPORTUNITY_FINDER"
    /\ OpSearchCall(q, p)

\* App: a tab of the navigation is chosen.
AppSetActiveTab(t) ==
    /\ mounted
    /\ SetActiveTab(t)
    /\ searchQuery' = <<>>
    /\ UNCHANGED requested

\* The replies with which a search ends at its first fetch.
FailingChannelReplies == {NetworkError, Ok(<<>>)}
FailingKeywordReplies == {NetworkError}

\* The active key of this specification is the stored one, until it is
\* deleted in the modal: no key is saved.
InitApp == InitKeys

NextApp ==
    \/ AppMount /\ UNCHANGED nonKeyVars
    \/ OpenKeyModal /\ UNCHANGED nonKeyVars
    \/ CloseKeyModal /\ UNCHANGED nonKeyVars
    \/ AskDeleteYt /\ UNCHANGED nonKeyVars
    \/ HandleDeleteYt /\ UNCHANGED nonKeyVars
    \/ \E t \in AppTabs : AppSetActiveTab(t) /\ UNCHANGED <<utilVars, keyVars, navVars>>
    \/ \E q \in Queries :
           ChSubmit(q) /\ UNCHANGED <<utilVars, keyVars, raceVars, navVars>>
    \/ \E q \in Queries :
           KwSubmit(q) /\ UNCHANGED <<utilVars, keyVars, raceVars, navVars>>
    \/ \E q \in Queries :
           OpSubmit(q, "all") /\ UNCHANGED <<scoreVars, viewVars, utilVars, keyVars, navVars>>
    \/ \E i \in 1..MaxInvocations :
           TurnTo(i) /\ UNCHANGED <<scoreVars, viewVars, utilVars, hostVars>>
    \/ \E reply \in FailingChannelReplies :
           ChChannelSettles(reply) /\ UNCHANGED <<risingVars, utilVars, keyVars, callVars,
                                                    raceVars, summaryVars, navVars>>
    \/ \E reply \in FailingKeywordReplies :
           KwVideosSettle(reply) /\ UNCHANGED <<risingVars, utilVars, keyVars, callVars,
                                                    raceVars, summaryVars, navVars>>
    \/ OpRejects("network error")
           /\ UNCHANGED <<scoreVars, viewVars, utilVars, keyVars, callVars, raceVars,
                          summaryVars, navVars>>

SpecApp == InitApp /\ [][NextApp]_vars

(***************************************************************************)
(* OpportunityFinder.handleSearch called again while it is in flight: the   *)
(* Enter key of the topic input (lines 175-179) is not gated by `loading`.  *)
(* Every invocation keeps its own `topic` and its own locals of             *)
(* findRisingChannels, and takes one step per reply of a fetch and one for  *)
(* its analyzeTopicOpportunity call.  `began` records the invocations that  *)
(* had run to their end when it was called, `after` those whose             *)
(* findRisingChannels had settled when its own returned.                    *)
(***************************************************************************)

\* The topics typed.
Topics == {"a", "b"}

\* The period selected in the view (setSelectedPeriod, lines 20 and 233):
\* channels of any age.
RacePeriod == "all"

\* The channel whose video the search on a topic lists.
ChannelOn(topic) == IF topic = "a" THEN 1 ELSE 2

\* The search lists drawn for a topic: no list, an empty one, or one video of
\* its channel.
RaceSearchResponses(topic) ==
    {Absent, Present(<<>>), Present(SearchItemsOf(<<ChannelOn(topic)>>))}

\* The report analyzeTopicOpportunity resolves to for a topic and its videos.
OpportunityReport(topic, results) == [topic |-> topic, videos |-> Len(results)]

\* The invocations that have run to their end, and those whose
\* findRisingChannels has returned or rejected.
SettledSoFar == {opFinished[k] : k \in 1..Len(opFinished)}
RespondedSoFar == {k \in 1..Len(opInvocations) : opInvocations[k].fetch # "pending"}

\* A setState call of invocation i: `next` when its view is mounted, and no
\* change of the state otherwise.
RaceSetState(i, current, next) == IF opInvocations[i].detached THEN current ELSE next

\* Lines 47-59 and part_001 lines 142-196: the guard passed, the state is
\* reset and findRisingChannels called, which sends its search request.
RaceHandleSearch(topic) ==
    /\ activeTab = "OPPORTUNITY_FINDER"
    /\ apiKey # <<>>
    /\ Len(opInvocations) < MaxInvocations
    /\ opInvocations' = Append(opInvocations,
                               [topic |-> topic, pc |-> "search", fetch |-> "pending",
                                began |-> SettledSoFar, after |-> {},
                                channelCreationCutoff |-> CreationCutoff(RacePeriod, 0),
                                searchItems |-> <<>>, videoMap |-> <<>>,
                                channelIds |-> <<>>, chItems |-> <<>>,
                                remote |-> <<>>, results |-> <<>>, ai |-> "none",
                                detached |-> FALSE])
    /\ loading' = TRUE
    /\ opChannels' = <<>>
    /\ report' = <<>>
    /\ hasSearched' = TRUE
    /\ videoSummaries' = [id \in SummaryIds |-> <<>>]
    /\ UNCHANGED <<opFinished, detached, overtaken, wfPc, analyzing, alerts, errorLog,
                   aiCalls, aiSettled, remote, loadingSummaries, summaryInFlight,
                   summaryLeft, summaryOutcome>>

\* findRisingChannels has returned `results`.
RaceReturned(inv, results) == [inv EXCEPT !.pc = "returned", !.results = results]

\* findRisingChannels of an invocation at the body of the reply to the fetch
\* it awaits (part_001 lines 197-266): it sends its next request or returns.
RaceFetchReturns(inv, resp) ==
    IF inv.pc = "search"
    THEN IF ~resp.hasItems THEN RaceReturned(inv, <<>>)
         ELSE LET ex  == Extracted(resp.items)
                  ids == ChannelIdsOf(ex.channelIdsSet)
              IN  IF Len(ids) = 0
                  THEN RaceReturned([inv EXCEPT !.searchItems = resp.items,
                                                !.videoMap = ex.videoMap], <<>>)
                  ELSE [inv EXCEPT !.searchItems = resp.items, !.videoMap = ex.videoMap,
                                   !.channelIds = ids, !.pc = "channels"]
    ELSE IF inv.pc = "channels"
    THEN IF ~resp.hasItems THEN RaceReturned(inv, <<>>)
         ELSE IF Len(VideoIdsToFetch(inv.videoMap)) = 0
         THEN RaceReturned([inv EXCEPT !.chItems = resp.items],
                           RisingResult(resp.items, inv.channelCreationCutoff,
                                        inv.videoMap, <<>>))
         ELSE [inv EXCEPT !.chItems = resp.items, !.pc = "videos"]
    ELSE RaceReturned(inv, RisingResult(inv.chItems, inv.channelCreationCutoff,
                                        inv.videoMap, GetVideoDetailsResult(resp)))

\* The fetches awaited inside findRisingChannels.
RisingFetches == {"search", "channels", "videos"}

\* Lines 59-67 and 79-84: a fetch() or json() awaited by findRisingChannels
\* of invocation i rejects, and handleSearch reaches its catch.
RaceFindRejects(i, kind) ==
    /\ i \in 1..Len(opInvocations)
    /\ opInvocations[i].pc \in RisingFetches
    /\ opInvocations' = [opInvocations EXCEPT ![i].pc = "done", ![i].fetch = "rejected",
                                               ![i].after = RespondedSoFar,
                                               ![i].remote = Append(@, kind)]
    /\ opFinished' = Append(opFinished, i)
    /\ errorLog' = Append(errorLog, "error")
    /\ alerts' = Append(alerts, OpFailureNotice)
    /\ loading' = RaceSetState(i, loading, FALSE)
    /\ UNCHANGED <<opChannels, report, hasSearched, wfPc, analyzing, aiCalls, aiSettled,
                   remote, detached, overtaken>>

\* handleSearch showing the results of the latest invocation only: those of
\* an invocation that was overtaken are dropped.
RaceFindResolves_LatestOnly(i, resp) ==
    /\ i \in 1..Len(opInvocations)
    /\ opInvocations[i].pc \in RisingFetches
    /\ \E inv \in {[RaceFetchReturns(opInvocations[i], resp)
                       EXCEPT !.remote = Append(@, BodyKind(resp))]} :
           IF inv.pc # "returned"
           THEN /\ opInvocations' = [opInvocations EXCEPT ![i] = inv]
                /\ UNCHANGED <<opChannels, aiCalls, opFinished, loading>>
           ELSE /\ opChannels' = RaceSetState(i, opChannels,
                                              IF i = Len(opInvocations) THEN inv.results
                                              ELSE opChannels)
                /\ IF Len(inv.results) > 0
                   THEN /\ opInvocations' =
                               [opInvocations EXCEPT
                                   ![i] = [inv EXCEPT !.pc = "analyzeTopicOpportunity",
                                                      !.fetch = "resolved",
                                                      !.after = RespondedSoFar]]
                        /\ aiCalls' = Append(aiCalls, AiCall("analyzeTopicOpportunity",
                                                             inv.results))
                        /\ UNCHANGED <<opFinished, loading>>
                   ELSE /\ opInvocations' =
                               [opInvocations EXCEPT
                                   ![i] = [inv EXCEPT !.pc = "done", !.fetch = "resolved",
                                                      !.after = RespondedSoFar]]
                        /\ opFinished' = Append(opFinished, i)
                        /\ loading' = RaceSetState(i, loading, FALSE)
                        /\ UNCHANGED aiCalls
    /\ UNCHANGED <<report, hasSearched, wfPc, analyzing, alerts, errorLog, aiSettled, remote,
                   detached, overtaken>>

\* Lines 59-76 and 82-84: a fetch of findRisingChannels of invocation i gets
\* a reply with a JSON body.  findRisingChannels sends its next request, or
\* it returns and handleSearch runs on: setChannels(results), then the
\* analyzeTopicOpportunity call when there are results, the finally block
\* when there are none.
RaceFindResolves(i, resp) ==
    /\ i \in 1..Len(opInvocations)
    /\ opInvocations[i].pc \in RisingFetches
    /\ \E inv \in {[RaceFetchReturns(opInvocations[i], resp)
                       EXCEPT !.remote = Append(@, BodyKind(resp))]} :
           IF inv.pc # "returned"
           THEN /\ opInvocations' = [opInvocations EXCEPT ![i] = inv]
                /\ UNCHANGED <<opChannels, aiCalls, opFinished, loading>>
           ELSE /\ opChannels' = RaceSetState(i, opChannels, inv.results)
                /\ IF Len(inv.results) > 0
                   THEN /\ opInvocations' =
                               [opInvocations EXCEPT
                                   ![i] = [inv EXCEPT !.pc = "analyzeTopicOpportunity",
                                                      !.fetch = "resolved",
                                                      !.after = RespondedSoFar]]
                        /\ aiCalls' = Append(aiCalls, AiCall("analyzeTopicOpportunity",
                                                             inv.results))
                        /\ UNCHANGED <<opFinished, loading>>
                   ELSE /\ opInvocations' =
                               [opInvocations EXCEPT
                                   ![i] = [inv EXCEPT !.pc = "done", !.fetch = "resolved",
                                                      !.after = RespondedSoFar]]
                        /\ opFinished' = Append(opFinished, i)
                        /\ loading' = RaceSetState(i, loading, FALSE)
                        /\ UNCHANGED aiCalls
    /\ UNCHANGED <<report, hasSearched, wfPc, analyzing, alerts, errorLog, aiSettled, remote,
                   detached, overtaken>>

\* Lines 75-84: analyzeTopicOpportunity of invocation i settles.
RaceAnalysisSettles(i, outcome) ==
    /\ i \in 1..Len(opInvocations)
    /\ opInvocations[i].pc = "analyzeTopicOpportunity"
    /\ opInvocations' = [opInvocations EXCEPT ![i].pc = "done", ![i].ai = outcome]
    /\ opFinished' = Append(opFinished, i)
    /\ \E analysis \in {Analyze(outcome)} :
           IF analysis.threw
           THEN /\ errorLog' = Append(errorLog \o analysis.log, "error")
                /\ alerts' = Append(alerts, OpFailureNotice)
                /\ UNCHANGED report
           ELSE /\ report' = RaceSetState(i, report,
                                           IF analysis.value = <<>> THEN <<>>
                                           ELSE <<OpportunityReport(opInvocations[i].topic,
                                                                    opInvocations[i].results)>>)
                /\ UNCHANGED <<errorLog, alerts>>
    /\ loading' = RaceSetState(i, loading, FALSE)
    /\ UNCHANGED <<opChannels, hasSearched, wfPc, analyzing, aiCalls, aiSettled, remote,
                   detached, overtaken>>

\* The video details drawn for a request naming vids: none, or all of them.
RaceVideoResponses(searched, vids) ==
    {Absent, Present([k \in 1..Len(vids) |-> VideoItem(searched, vids[k], <<<<"3">>>>)])}

\* The replies drawn for the fetch invocation i is waiting on.
RaceResponses(i) ==
    IF i > Len(opInvocations) THEN {}
    ELSE IF opInvocations[i].pc = "search" THEN RaceSearchResponses(opInvocations[i].topic)
    ELSE IF opInvocations[i].pc = "channels"
    THEN ChannelResponses(opInvocations[i].channelIds, FALSE)
    ELSE IF opInvocations[i].pc = "videos"
    THEN RaceVideoResponses(opInvocations[i].searchItems,
                            VideoIdsToFetch(opInvocations[i].videoMap))
    ELSE {}

\* How the analyzeTopicOpportunity calls drawn here go.
RaceAiOutcomes == {"report", "null", "remote error"}

nonRaceVars == <<utilVars, hostVars, summaryVars>>

\* The view is left with at most one invocation in flight: what that one
\* does beside the searches of the view mounted next is followed here, and
\* searches that overlap in a view that is left in SpecApp.
NextRace ==
    \/ \E t \in AppTabs :
           /\ Len(opInvocations) <= 1
           /\ SetActiveTab(t)
           /\ UNCHANGED <<utilVars, hostVars>>
    \/ \E topic \in Topics :
           RaceHandleSearch(topic) /\ UNCHANGED <<utilVars, hostVars, risingVars, scoreVars,
                                                   viewVars>>
    \/ \E i \in 1..MaxInvocations :
           RaceFindRejects(i, "network error")
               /\ UNCHANGED <<nonRaceVars, risingVars, scoreVars, viewVars>>
    \/ \E i \in 1..MaxInvocations : \E resp \in RaceResponses(i) :
           RaceFindResolves(i, resp)
               /\ UNCHANGED <<nonRaceVars, risingVars, scoreVars, viewVars>>
    \/ \E i \in 1..MaxInvocations, outcome \in RaceAiOutcomes :
           RaceAnalysisSettles(i, outcome)
               /\ UNCHANGED <<nonRaceVars, risingVars, scoreVars, viewVars>>

SpecRace == Init /\ [][NextRace]_vars

(***************************************************************************)
(* handleSummarizeVideo (the same in the three views) and summarizeVideo.   *)
(***************************************************************************)

\* The most summarizeVideo calls awaited for one video.
MaxInFlight == 2

\* How one summarizeVideo call may go: the gateway answers with a text or
\* with none, getGenAI finds no stored key, or generateContent fails.
SummaryOutcomes == {"text", "no text", "no key", "remote error"}

\* The text summarizeVideo returns from its catch (part_002 line 294).
SummaryFailedText == "summary generation failed"

\* summarizeVideo (part_002 lines 262-296): getGenAI throws outside the try;
\* a failed generateContent is caught and the failure text returned.
SummarizeVideo(outcome) ==
    IF outcome = "no key" THEN [threw |-> TRUE, value |-> <<>>]
    ELSE IF outcome = "remote error" THEN [threw |-> FALSE, value |-> <<SummaryFailedText>>]
    ELSE IF outcome = "no text" THEN [threw |-> FALSE, value |-> <<>>]
    ELSE [threw |-> FALSE, value |-> <<"summary">>]

\* handleSummarizeVideo testing the stored summary only.
HandleSummarizeVideo_NoLoadingTest(id) ==
    /\ summaryInFlight[id] + summaryLeft[id] < MaxInFlight
    /\ IF videoSummaries[id] # <<>>
       THEN UNCHANGED <<loadingSummaries, summaryInFlight>>
       ELSE /\ loadingSummaries' = [loadingSummaries EXCEPT ![id] = TRUE]
            /\ summaryInFlight' = [summaryInFlight EXCEPT ![id] = @ + 1]
    /\ UNCHANGED <<videoSummaries, summaryLeft, summaryOutcome>>

\* handleSummarizeVideo (ChannelAnalysis lines 168-172) up to its await.
HandleSummarizeVideo(id) ==
    /\ summaryInFlight[id] + summaryLeft[id] < MaxInFlight
    /\ IF videoSummaries[id] # <<>> \/ loadingSummaries[id]
       THEN UNCHANGED <<loadingSummaries, summaryInFlight>>
       ELSE /\ loadingSummaries' = [loadingSummaries EXCEPT ![id] = TRUE]
            /\ summaryInFlight' = [summaryInFlight EXCEPT ![id] = @ + 1]
    /\ UNCHANGED <<videoSummaries, summaryLeft, summaryOutcome>>

\* handleSummarizeVideo (lines 172-179) once summarizeVideo settled: the
\* value is stored, or the catch raises its alert; finally clears the flag.
SummarySettles(id, outcome) ==
    /\ summaryInFlight[id] > 0
    /\ summaryInFlight' = [summaryInFlight EXCEPT ![id] = @ - 1]
    /\ \E summary \in {SummarizeVideo(outcome)} :
           /\ videoSummaries' = IF summary.threw THEN videoSummaries
                                ELSE [videoSummaries EXCEPT ![id] = summary.value]
           /\ summaryOutcome' = [summaryOutcome EXCEPT
                                   ![id] = [call |-> outcome, alert |-> summary.threw]]
    /\ loadingSummaries' = [loadingSummaries EXCEPT ![id] = FALSE]
    /\ UNCHANGED summaryLeft

\* The same lines in a view that was unmounted while it awaited the call:
\* setVideoSummaries and setLoadingSummaries change nothing, the alert of the
\* catch is raised all the same.
LeftSummarySettles(id, outcome) ==
    /\ summaryLeft[id] > 0
    /\ summaryLeft' = [summaryLeft EXCEPT ![id] = @ - 1]
    /\ \E summary \in {SummarizeVideo(outcome)} :
           summaryOutcome' = [summaryOutcome EXCEPT
                                ![id] = [call |-> outcome, alert |-> summary.threw]]
    /\ UNCHANGED <<videoSummaries, loadingSummaries, summaryInFlight>>

\* The summaries are asked for in the view that is shown, between its
\* searches (whose first lines empty `videoSummaries`) and the changes of
\* tab, which leave the calls awaited to settle beside those of the next view.
NextSummary ==
    \/ \E id \in SummaryIds :
           HandleSummarizeVideo(id)
               /\ UNCHANGED <<risingVars, scoreVars, viewVars, utilVars, flowVars, hostVars,
                              raceVars>>
    \/ \E id \in SummaryIds, outcome \in SummaryOutcomes :
           SummarySettles(id, outcome)
               /\ UNCHANGED <<risingVars, scoreVars, viewVars, utilVars, flowVars, hostVars,
                              raceVars>>
    \/ \E id \in SummaryIds, outcome \in SummaryOutcomes :
           LeftSummarySettles(id, outcome)
               /\ UNCHANGED <<risingVars, scoreVars, viewVars, utilVars, flowVars, hostVars,
                              raceVars>>
    \/ \E t \in AppTabs : SetActiveTab(t) /\ UNCHANGED <<utilVars, hostVars>>
    \/ ChHandleSearch /\ UNCHANGED <<utilVars, hostVars, raceVars>>
    \/ \E reply \in FailingChannelReplies :
           ChChannelSettles(reply) /\ UNCHANGED nonFlowVars

SpecSummary == Init /\ [][NextSummary]_vars

(***************************************************************************)
(* App.handleNavigateToAnalysis and the auto-search effect of               *)
(* ChannelAnalysis.  The render that mounts the view and its effect run     *)
(* before any other event, so they belong to the step that switches the tab.*)
(***************************************************************************)

\* The most calls of onAnalyzeChannel followed.
MaxNavigations == 2

\* `initialQuery` is null or the empty string.
IsFalsyQuery(initialQuery) == initialQuery = <<>> \/ initialQuery[1] = <<>>

\* The effect without the call of onSearchComplete.
MountChannelAnalysis_KeepsPending(initialQuery) ==
    IF IsFalsyQuery(initialQuery)
    THEN /\ ViewMounts("CHANNEL_ANALYSIS", FALSE, "idle")
         /\ autoSearchChannel' = initialQuery
         /\ searchQuery' = <<>>
         /\ UNCHANGED requested
    ELSE /\ requested' = Requested("CHANNEL_ANALYSIS", initialQuery[1])
         /\ autoSearchChannel' = initialQuery
         /\ IF IsBlankText(initialQuery[1]) \/ apiKey = <<>>
            THEN /\ ViewMounts("CHANNEL_ANALYSIS", FALSE, "idle")
                 /\ searchQuery' = <<>>
            ELSE /\ ViewMounts("CHANNEL_ANALYSIS", TRUE, "searchChannelByName")
                 /\ searchQuery' = initialQuery

\* ChannelAnalysis mounts with the prop initialQuery and its effect runs
\* (lines 120-126): handleSearch(undefined, initialQuery) up to its await
\* (lines 128-141), then onSearchComplete, which is setAutoSearchChannel(null).
MountChannelAnalysis(initialQuery) ==
    IF IsFalsyQuery(initialQuery)
    THEN /\ ViewMounts("CHANNEL_ANALYSIS", FALSE, "idle")
         /\ autoSearchChannel' = initialQuery
         /\ searchQuery' = <<>>
         /\ UNCHANGED requested
    ELSE /\ requested' = Requested("CHANNEL_ANALYSIS", initialQuery[1])
         /\ autoSearchChannel' = <<>>
         /\ IF IsBlankText(initialQuery[1]) \/ apiKey = <<>>
            THEN /\ ViewMounts("CHANNEL_ANALYSIS", FALSE, "idle")
                 /\ searchQuery' = <<>>
            ELSE /\ ViewMounts("CHANNEL_ANALYSIS", TRUE, "searchChannelByName")
                 /\ searchQuery' = initialQuery

\* The view shows a result that carries the button calling onAnalyzeChannel:
\* a video of the list (KeywordAnalysis lines 193, 327 and 389), or a channel
\* of the result grid, which is rendered only while `loading` is false
\* (OpportunityFinder lines 205, 290 and 354).
ShowsChannelLink ==
    \/ activeTab = "KEYWORD_ANALYSIS" /\ kwDisplay # <<>>
    \/ activeTab = "OPPORTUNITY_FINDER" /\ ~loading /\ opChannels # <<>>

\* The channel names the results carry: "", " " and "a".
ChannelNames == Queries

\* handleNavigateToAnalysis (part_000 lines 36-39) and the render after it.
NavigateToAnalysis(name) ==
    /\ mounted
    /\ ShowsChannelLink
    /\ Len(navigated) < MaxNavigations
    /\ navigated' = Append(navigated, name)
    /\ MountChannelAnalysis(<<name>>)
    /\ UNCHANGED <<mounted, apiKey, isKeyModalOpen, localStorage>>

\* A tab of the navigation is chosen; ChannelAnalysis, when it is the one
\* mounted, gets initialQuery = autoSearchChannel.
NavSetActiveTab(t) ==
    /\ mounted
    /\ IF t = "CHANNEL_ANALYSIS"
       THEN /\ MountChannelAnalysis(autoSearchChannel)
            /\ UNCHANGED <<mounted, apiKey, isKeyModalOpen, localStorage>>
       ELSE /\ AppSetActiveTab(t)
            /\ UNCHANGED appVars
    /\ UNCHANGED navigated

navKeyVars == <<codecVars, ytVars, geminiVars>>

\* The replies and outcomes with which the searches of this specification
\* end: a keyword search finds one video or fails, an opportunity search
\* finds one video of one channel, an AI call answers or fails.  A search is
\* started from a form when none is in flight; the search that an
\* onAnalyzeChannel starts overtakes the AI call of the view it leaves.
NavKeywordReplies(at) ==
    IF at = "searchVideosByKeyword" THEN {Ok(<<[videoId |-> 101]>>), NetworkError}
    ELSE {Ok(<<FlowVideoItem(1)>>), NetworkError}
NavAiOutcomes == {"report", "remote error"}

NextNav ==
    \/ OpenKeyModal /\ UNCHANGED nonKeyVars
    \/ CloseKeyModal /\ UNCHANGED nonKeyVars
    \/ AskDeleteYt /\ UNCHANGED nonKeyVars
    \/ HandleDeleteYt /\ UNCHANGED nonKeyVars
    \/ \E t \in AppTabs : NavSetActiveTab(t) /\ UNCHANGED <<utilVars, navKeyVars>>
    \/ /\ ~SearchInFlight /\ overtaken = <<>>
       /\ KwSubmit(<<"a">>)
       /\ UNCHANGED <<utilVars, keyVars, raceVars, navVars>>
    \/ /\ ~SearchInFlight /\ overtaken = <<>>
       /\ OpSubmit(<<"a">>, "all")
       /\ UNCHANGED <<scoreVars, viewVars, utilVars, keyVars, navVars>>
    \/ \E name \in ChannelNames : NavigateToAnalysis(name) /\ UNCHANGED <<utilVars, navKeyVars>>
    \/ \E i \in 1..MaxInvocations :
           TurnTo(i) /\ UNCHANGED <<scoreVars, viewVars, utilVars, hostVars>>
    \/ \E reply \in NavKeywordReplies(wfPc) : KwVideosSettle(reply) /\ UNCHANGED nonFlowVars
    \/ \E outcome \in NavAiOutcomes : KwAnalysisSettles(outcome) /\ UNCHANGED nonFlowVars
    \/ \E resp \in {Present(SearchItemsOf(<<1>>))} :
           OpSearchReturns(resp) /\ UNCHANGED <<scoreVars, viewVars, utilVars, shellVars>>
    \/ \E resp \in ChannelResponses(channelIds, FALSE) :
           OpChannelsReturn(resp) /\ UNCHANGED <<scoreVars, viewVars, utilVars, shellVars>>
    \/ \E resp \in VideoResponses(searchItems.items, VideoIdsToFetch(videoMap), FALSE) :
           OpVideosReturn(resp) /\ UNCHANGED <<scoreVars, viewVars, utilVars, shellVars>>
    \/ \E outcome \in NavAiOutcomes :
           OpAnalysisSettles(outcome) /\ UNCHANGED <<scoreVars, viewVars, utilVars, shellVars>>
    \/ \E reply \in FailingChannelReplies : ChChannelSettles(reply) /\ UNCHANGED nonFlowVars

SpecNav == Init /\ [][NextNav]_vars

(***************************************************************************)
(* Properties of the popularity score                                      *)
(***************************************************************************)

Elems(seq) == {seq[i] : i \in 1..Len(seq)}

\* v carries the largest view, like and comment count of videos at once.
HoldsAllMaxima(v, videos) ==
    \A w \in Elems(videos) :
        /\ w.viewCount <= v.viewCount
        /\ w.likeCount <= v.likeCount
        /\ w.commentCount <= v.commentCount

\* The weights of the counts whose maximum over the collection is not 0.
LiveWeight(v) ==
    (IF v.viewCount > 0 THEN 50 ELSE 0) + (IF v.likeCount > 0 THEN 30 ELSE 0)
        + (IF v.commentCount > 0 THEN 20 ELSE 0)

ScoresBounded(processed) ==
    \A v \in Elems(processed) : v.popularityScore \in 0..100

HolderScores(processed, videos) ==
    \A v \in Elems(processed) :
        HoldsAllMaxima(v, videos) => v.popularityScore = LiveWeight(v)

HolderScoresHundred(processed, videos) ==
    \A v \in Elems(processed) :
        HoldsAllMaxima(v, videos) => v.popularityScore = 100

\* C1 (as amended): every score the two views attach is an integer in
\* 0..100, and a video holding the largest view, like and comment count of
\* its collection scores the sum of the weights (50, 30, 20) of the counts
\* whose maximum is positive: 100 exactly when all three maxima are positive.
C1_ScoreRange ==
    /\ ScoresBounded(chProcessed) /\ ScoresBounded(kwProcessed)
    /\ HolderScores(chProcessed, chVideos)
    /\ HolderScores(kwProcessed, kwVideos)

\* C1 as stated: the holder of all three maxima always scores exactly 100.
C1_HolderAlwaysHundred ==
    /\ ScoresBounded(chProcessed) /\ ScoresBounded(kwProcessed)
    /\ HolderScoresHundred(chProcessed, chVideos)
    /\ HolderScoresHundred(kwProcessed, kwVideos)

\* Both views scored a collection in which one video holds three positive
\* maxima (and scores 100) and another scores strictly in between.
C1_Witness ==
    /\ \E v \in Elems(chProcessed) :
          /\ HoldsAllMaxima(v, chVideos) /\ LiveWeight(v) = 100
          /\ v.popularityScore = 100
    /\ \E w \in Elems(chProcessed) : w.popularityScore \in 1..99
    /\ \E v \in Elems(kwProcessed) :
          /\ HoldsAllMaxima(v, kwVideos) /\ LiveWeight(v) = 100
          /\ v.popularityScore = 100

\* The largest number of a non-empty set.
LargestOf(ns) == CHOOSE m \in ns : \A n \in ns : n <= m

LargestViews(videos)    == LargestOf({v.viewCount : v \in Elems(videos)})
LargestLikes(videos)    == LargestOf({v.likeCount : v \in Elems(videos)})
LargestComments(videos) == LargestOf({v.commentCount : v \in Elems(videos)})

\* count / max as a double, 0 when max is 0.
ShareOf(count, max) == IF max = 0 THEN DblZero ELSE DblDiv(count, max)

\* round(viewShare*50 + likeShare*30 + commentShare*20), every quotient,
\* product and sum being the nearest double.
RoundedDoubleShare(v, mv, ml, mc) ==
    MathRound(DblAdd(DblAdd(DblMul(ShareOf(v.viewCount, mv), 50),
                            DblMul(ShareOf(v.likeCount, ml), 30)),
                     DblMul(ShareOf(v.commentCount, mc), 20)))

ScoredAsSpecified(processed, videos) ==
    \A v \in Elems(processed) :
        v.popularityScore = RoundedDoubleShare(v,
            LargestViews(videos), LargestLikes(videos), LargestComments(videos))

CopiesAgree ==
    (chVideos = kwVideos) =>
        \A a \in Elems(chProcessed) : \A b \in Elems(kwProcessed) :
            a.id = b.id => a.popularityScore = b.popularityScore

\* C2: each view's calculateVideoScore returns the weighted sum
\* of shares (50/30/20, a share being 0 when its maximum is 0) as double
\* arithmetic evaluates it, rounded to the nearest integer, and the two
\* copies agree on every video of the same collection.
C2_ScoreFormula ==
    /\ ScoredAsSpecified(chProcessed, chVideos)
    /\ ScoredAsSpecified(kwProcessed, kwVideos)
    /\ CopiesAgree

\* Both views scored the same collection, which has a zero maximum (a share
\* counted as 0) and a video whose exact weighted sum is the tie 17.5
\* (50/3 + 30/36), which the doubles put just below: it scores 17.
C2_Witness ==
    /\ Len(chVideos) > 0 /\ chVideos = kwVideos
    /\ Len(chProcessed) = Len(chVideos) /\ Len(kwProcessed) = Len(kwVideos)
    /\ LargestComments(chVideos) = 0
    /\ LargestViews(kwVideos) = 3 /\ LargestLikes(kwVideos) = 36
    /\ \E v \in Elems(kwProcessed) :
          /\ v.viewCount = 1 /\ v.likeCount = 1
          /\ v.popularityScore = 17
    /\ \E v \in Elems(chProcessed) :
          /\ v.viewCount = 1 /\ v.likeCount = 1
          /\ v.popularityScore = 17

(***************************************************************************)
(* Properties of findRisingChannels                                        *)
(***************************************************************************)

Kinds(cs) == [i \in 1..Len(cs) |-> cs[i].kind]
CallsOf(kind) == {c \in Elems(calls) : c.kind = kind}

\* The search response has been received and processed.
Searched == pc \in {"channels", "videos", "done"}

\* The rank of the first search result owned by channel ch.
FirstRank(items, ch) ==
    CHOOSE i \in 1..Len(items) :
        /\ items[i].channelId = ch
        /\ \A j \in 1..(i - 1) : items[j].channelId # ch

\* C3: every result pairs its channel with the first video, in the order
\* the search returned them, that the channel owns; a later video of the
\* channel never takes its place.
C3_FirstSeenVideo ==
    pc = "done" =>
        \A r \in Elems(risingChannels) :
            /\ \E i \in 1..Len(searchItems.items) :
                   searchItems.items[i].channelId = r.details.id
            /\ r.topVideo.id =
                   searchItems.items[FirstRank(searchItems.items, r.details.id)].videoId

\* A result whose channel owns the videos ranked 1 and 3, paired with the
\* one ranked 1.
C3_Witness ==
    /\ pc = "done"
    /\ \E r \in Elems(risingChannels) :
          /\ Len(searchItems.items) >= 3
          /\ searchItems.items[1].channelId = r.details.id
          /\ searchItems.items[2].channelId # r.details.id
          /\ searchItems.items[3].channelId = r.details.id
          /\ r.topVideo.id = searchItems.items[1].videoId

\* What a subscriberCount string sent by the service means: the count it
\* spells, and 0 when it is absent or spells no number.
SubscribersMeant(raw) ==
    CASE raw = <<"0">> -> 0
      [] raw = <<"1">> -> 1
      [] raw = <<"2">> -> 2
      [] raw = <<"1", "0", "0", "0", "0">> -> 10000
      [] OTHER -> 0

\* The channel item the service sent for a result.
FetchedChannel(r) == CHOOSE it \in Elems(chItems.items) : it.id = r.details.id

\* C4: score = (representative video's views) / max(subscribers, 1), an
\* absent or unparseable subscriber count counting as 0; stated without
\* division as score.num * max(subs, 1) = views * score.den.
C4_ScoreIsViewsPerSubscriber ==
    pc = "done" =>
        \A r \in Elems(risingChannels) :
            LET subs == SubscribersMeant(FetchedChannel(r).subscriberCount)
            IN  /\ r.score.den > 0
                /\ r.score.num * Max(subs, 1) = r.topVideo.viewCount * r.score.den
                /\ r.topVideoViews = r.topVideo.viewCount

\* One output holds a channel with 0 subscribers scoring 1000 and a channel
\* with 10,000 subscribers scoring 0.1, both on a 1,000-view video, and a
\* channel whose subscriber count is absent.
C4_Witness ==
    /\ pc = "done"
    /\ \E r \in Elems(risingChannels) :
          /\ FetchedChannel(r).subscriberCount = <<"0">>
          /\ r.topVideo.viewCount = 1000
          /\ r.score.num = 1000 * r.score.den
    /\ \E r \in Elems(risingChannels) :
          /\ FetchedChannel(r).subscriberCount = <<"1", "0", "0", "0", "0">>
          /\ r.topVideo.viewCount = 1000
          /\ 10 * r.score.num = r.score.den
    /\ \E r \in Elems(risingChannels) :
          /\ FetchedChannel(r).subscriberCount = Undefined
          /\ r.topVideo.viewCount = 1000
          /\ r.score.num = 1000 * r.score.den

\* C5: the returned list is sorted by score, non-increasing, whatever the
\* order in which the channels response lists the channels.
C5_SortedByScore ==
    pc = "done" =>
        \A i \in 1..(Len(risingChannels) - 1) :
            RatCmp(risingChannels[i].score, risingChannels[i + 1].score) >= 0

\* Three results with three different scores whose channels the service
\* listed neither in the output's order nor in its reverse.
C5_Witness ==
    /\ pc = "done"
    /\ Len(risingChannels) = 3
    /\ RatCmp(risingChannels[1].score, risingChannels[2].score) > 0
    /\ RatCmp(risingChannels[2].score, risingChannels[3].score) > 0
    /\ Len(chItems.items) = 3
    /\ chItems.items[1].id = risingChannels[2].details.id

\* The channel item was created on or after the cutoff of the invocation.
InWindow(it) == it.publishedAt >= channelCreationCutoff

\* The cutoff lies WindowDays(p) calendar days before Now: that many times
\* 24 hours, give or take what the host's offset from UTC changed by in
\* between (at most three hours); for 'all'
\* it is the epoch.
CutoffDerived(p) ==
    IF p = "all" THEN channelCreationCutoff = 0
    ELSE channelCreationCutoff - (Now - WindowDays(p) * Day) \in OffsetShifts

\* The channel item was created at least one day more, at most one day
\* less, than the window's length before Now.
CreatedBeyond(it, p) == it.publishedAt <= Now - (WindowDays(p) + 1) * Day
CreatedWithin(it, p) == it.publishedAt >= Now - (WindowDays(p) - 1) * Day

\* The details of the channel's representative video were resolved.
Resolved(it) ==
    \E v \in Elems(videoDetails) :
        v.id = searchItems.items[FirstRank(searchItems.items, it.id)].videoId

Emitted(it) == \E r \in Elems(risingChannels) : r.details.id = it.id

\* C6: once the video details are in, a channel the service
\* listed is in the output exactly when its representative video was
\* resolved and it was created on or after the cutoff instant, which lies
\* 90 / 180 / 365 calendar days before now (3m / 6m / 1y): that many times
\* 24 hours, up to three hours more or less when the host's offset from UTC
\* changed in between.  A channel created 91 days ago is left out of the 3m window and
\* one created 89 days ago is in (likewise one day either side of the other
\* windows); with 'all' no channel is left out for its creation instant.
C6_CreationWindow ==
    (pc = "done" /\ Len(Kinds(calls)) = 3) =>
        /\ CutoffDerived(period)
        /\ \A r \in Elems(risingChannels) : InWindow(r.details)
        /\ \A it \in Elems(chItems.items) :
               /\ Emitted(it) <=> (InWindow(it) /\ Resolved(it))
               /\ period # "all" /\ CreatedBeyond(it, period) => ~Emitted(it)
               /\ (period = "all" \/ CreatedWithin(it, period)) /\ Resolved(it)
                      => Emitted(it)

\* Period 3m: the service listed channels created 89, 90 and 91 days ago,
\* all with resolved videos; the first is in the output and the third is
\* not (the second is in unless the offset from UTC grew in between).
C6_Witness ==
    /\ pc = "done" /\ period = "3m" /\ Len(chItems.items) = 3
    /\ \A it \in Elems(chItems.items) : Resolved(it)
    /\ \E it \in Elems(chItems.items) :
          /\ it.publishedAt = Now - 91 * Day
          /\ \A r \in Elems(risingChannels) : r.details.id # it.id
    /\ \E r \in Elems(risingChannels) : r.details.publishedAt = Now - 89 * Day
    /\ \E it \in Elems(chItems.items) :
          /\ it.publishedAt = Now - 90 * Day
          /\ channelCreationCutoff = Now - 90 * Day + 60
          /\ ~Emitted(it)

RECURSIVE DistinctInOrder(_, _, _)
\* The distinct channels of items[i..], in order of first appearance, that
\* are not in seen.
DistinctInOrder(items, i, seen) ==
    IF i > Len(items) THEN <<>>
    ELSE IF items[i].channelId \in seen THEN DistinctInOrder(items, i + 1, seen)
    ELSE <<items[i].channelId>>
             \o DistinctInOrder(items, i + 1, seen \cup {items[i].channelId})

\* C7: the channels request names the first 40 distinct channels of the
\* search results, never more, and the output has at most 40 entries.
C7_ChannelCap ==
    /\ \A c \in CallsOf("channels") :
          /\ Len(c.ids) <= 40
          /\ LET all == DistinctInOrder(searchItems.items, 1, {})
             IN  c.ids = SubSeq(all, 1, Min(40, Len(all)))
    /\ Len(risingChannels) <= 40

\* 50 search results from 50 channels: 40 channels asked for, 40 results.
C7_Witness ==
    /\ pc = "done"
    /\ Len(DistinctInOrder(searchItems.items, 1, {})) = 50
    /\ \E c \in CallsOf("channels") : Len(c.ids) = 40
    /\ Len(risingChannels) = 40

\* C8 as stated: the videos request names exactly the representative videos
\* of the channels whose metadata was requested.
C8_VideoBatchMatchesChannelBatch ==
    \A c \in CallsOf("videos") :
        {c.ids[i] : i \in 1..Len(c.ids)} =
            {searchItems.items[FirstRank(searchItems.items, channelIds[k])].videoId :
                k \in 1..Len(channelIds)}

\* C9: the calls of one invocation are a prefix of search, channels, videos:
\* each is issued at most once and in that order; the search is issued as
\* soon as the invocation starts, and when it returned at least one result
\* the channels call follows, and the videos call follows a channels
\* response that carries items.
C9_CallSequence ==
    /\ Len(calls) <= 3
    /\ Kinds(calls) = SubSeq(<<"search", "channels", "videos">>, 1, Len(calls))
    /\ pc # "idle" => Len(calls) >= 1
    /\ (Searched /\ Len(searchItems.items) > 0) => Len(calls) >= 2
    /\ (pc = "done" /\ Len(searchItems.items) > 0) =>
           (Len(calls) = 3 <=> chItems.hasItems)

\* An invocation that finished after all three calls.
C9_Witness ==
    /\ pc = "done"
    /\ Len(searchItems.items) > 0
    /\ Kinds(calls) = <<"search", "channels", "videos">>
    /\ Len(risingChannels) > 0

\* C10: when the search returned no result (no item list, or an empty one)
\* the invocation is over with the empty list and the search was its only
\* call.
C10_EmptySearch ==
    (Searched /\ Len(searchItems.items) = 0) =>
        /\ pc = "done"
        /\ risingChannels = <<>>
        /\ Kinds(calls) = <<"search">>

\* The search returned an empty item list and the invocation is over.
C10_Witness ==
    /\ pc = "done"
    /\ searchItems = Present(<<>>)
    /\ risingChannels = <<>>
    /\ Kinds(calls) = <<"search">>

\* The video recorded for channel ch was resolved by the video-detail batch.
ResolvedIn(details, map, ch) ==
    \E v \in Elems(details) : \E e \in Elems(map) : e.key = ch /\ e.value = v.id

\* C11: a channel whose representative video is absent from the video-detail
\* batch gets no result; every result carries a resolved topVideo whose id
\* is the video recorded for its channel, and topVideoViews is that video's
\* view count.
C11_UnresolvedVideoSkipped ==
    pc = "done" =>
        /\ \A r \in Elems(risingChannels) :
               /\ \E e \in Elems(videoMap) :
                      e.key = r.details.id /\ e.value = r.topVideo.id
               /\ r.topVideo \in Elems(videoDetails)
               /\ r.topVideoViews = r.topVideo.viewCount
        /\ \A it \in Elems(chItems.items) :
               ~ResolvedIn(videoDetails, videoMap, it.id) =>
                   \A r \in Elems(risingChannels) : r.details.id # it.id

\* The videos response left out the video of a listed channel created in
\* the window: that channel has no result, another listed channel has one.
C11_Witness ==
    /\ pc = "done" /\ Kinds(calls) = <<"search", "channels", "videos">>
    /\ \E it \in Elems(chItems.items) :
          /\ InWindow(it)
          /\ ~ResolvedIn(videoDetails, videoMap, it.id)
          /\ \A r \in Elems(risingChannels) : r.details.id # it.id
    /\ \E r \in Elems(risingChannels) :
          r.topVideo.viewCount = 1000 /\ r.topVideoViews = 1000

\* The subscriber counts the service spells out in digits.
SpelledCounts == {<<"0">>, <<"1">>, <<"2">>, <<"1", "0", "0", "0", "0">>}

\* C12 as stated: the channel record of a result keeps the subscriber count
\* that was fetched (0 for a channel fetched with 0 subscribers), the floor
\* of 1 being applied to the divisor of the score only.
C12_RecordKeepsFetchedCount ==
    pc = "done" =>
        \A r \in Elems(risingChannels) :
            LET raw == FetchedChannel(r).subscriberCount
            IN  /\ raw \in SpelledCounts =>
                       r.details.subscriberCount = SubscribersMeant(raw)
                /\ r.score.num * Max(SubscribersMeant(raw), 1)
                       = r.topVideo.viewCount * r.score.den


(***************************************************************************)
(* Properties of the views' filter, sort and truncation                    *)
(***************************************************************************)

\* The videos of seq of the chosen type, in the order of seq.
OfType(seq, type) ==
    Keep(seq, {i \in 1..Len(seq) :
                  \/ type = "all"
                  \/ (type = "shorts") = (parseDuration(seq[i].duration) < 180)}, 1)

\* C13: in both views, for the type filter and the sort key chosen, the
\* list obtained by filtering the scored collection and then sorting it (as
\* the code does) is the list obtained by sorting the whole scored
\* collection and then filtering it.
C13_FilterSortCommute ==
    /\ chSorted = OfType(ChSortedVideos(chProcessed, "all", chSortOption),
                         chFilterOption)
    /\ kwProcessed = OfType(KwProcessedVideos(kwVideos, "all", kwSortOption),
                            kwVideoType)

\* The channel view shows the short-form videos by views: some video was
\* filtered out, the sort reordered the rest, and two of them tie on views.
C13_Witness ==
    /\ chFilterOption = "shorts" /\ chSortOption = "views"
    /\ Len(chSorted) >= 2 /\ Len(chSorted) < Len(chProcessed)
    /\ chSorted # OfType(chProcessed, "shorts")
    /\ \E i \in 1..(Len(chSorted) - 1) :
          chSorted[i].viewCount = chSorted[i + 1].viewCount

\* d is the first Min(n, Len(s)) elements of s.
IsPrefixOfLen(d, s, n) ==
    /\ Len(d) = Min(n, Len(s))
    /\ \A i \in 1..Len(d) : i <= Len(s) /\ d[i] = s[i]

\* The number a sort key ranks a scored video by, larger first.
SortKey(option, v) ==
    CASE option = "popularity" -> v.popularityScore
      [] option = "views" -> v.viewCount
      [] option = "date_asc" -> 0 - v.publishedAt
      [] OTHER -> v.publishedAt

\* s lists exactly the videos of `videos` of the chosen type, each once,
\* larger key first.
IsFilteredAndSorted(s, videos, type, option) ==
    /\ {s[i].id : i \in 1..Len(s)} = {v.id : v \in Elems(OfType(videos, type))}
    /\ Len(s) = Len(OfType(videos, type))
    /\ \A i \in 1..Len(s) : \A j \in (i + 1)..Len(s) :
           SortKey(option, s[i]) >= SortKey(option, s[j])

\* C14: in both views the displayed list is the first min(displayCount, n)
\* elements of the list that holds every video of the chosen type in sorted
\* order; an element left out ranks no higher than any displayed one.
C14_TruncationAfterSort ==
    /\ IsFilteredAndSorted(chSorted, chVideos, chFilterOption, chSortOption)
    /\ IsPrefixOfLen(chDisplay, chSorted, chDisplayCount)
    /\ IsFilteredAndSorted(kwProcessed, kwVideos, kwVideoType, kwSortOption)
    /\ IsPrefixOfLen(kwDisplay, kwProcessed, kwDisplayCount)

\* The keyword view shows 10 of more than 10 regular videos by popularity,
\* one of which was fetched after the tenth video.
C14_Witness ==
    /\ kwVideoType = "video" /\ kwSortOption = "popularity" /\ kwDisplayCount = 10
    /\ Len(kwProcessed) > 10 /\ Len(kwDisplay) = 10
    /\ \E i \in 1..10 : kwDisplay[i].id > 10
    /\ kwProcessed[11].popularityScore < kwDisplay[1].popularityScore

\* C15: whatever controls were changed, the collection a view holds is the
\* fetched one: the same records in the same order with the fetched values,
\* none carrying a popularity score.
C15_FetchedCollectionUntouched ==
    /\ chVideos \in {<<>>, input}
    /\ kwVideos \in {<<>>, input}
    /\ \A v \in Elems(chVideos) \cup Elems(kwVideos) :
           DOMAIN v = {"id", "viewCount", "likeCount", "commentCount", "duration",
                       "publishedAt"}

\* The channel view after its three controls were changed: it shows fewer
\* videos than it kept, kept fewer than were fetched, in another order.
C15_Witness ==
    /\ chVideos = input /\ Len(chVideos) > 10
    /\ chFilterOption = "video" /\ chSortOption = "date_asc" /\ chDisplayCount = 10
    /\ Len(chDisplay) < Len(chSorted) /\ Len(chSorted) < Len(chVideos)
    /\ chDisplay[1].id # chProcessed[1].id
    /\ \E v \in Elems(chProcessed) : v.popularityScore > 0

(***************************************************************************)
(* Properties of parseDuration and of the short-form classifiers            *)
(***************************************************************************)

\* The seconds a group stands for.
GroupSeconds(n, each) == IF n = NoGroup THEN 0 ELSE n * each

\* s contains "PT".
HasPT(s) == \E i \in 1..(Len(s) - 1) : s[i] = "P" /\ s[i + 1] = "T"

\* C16: parseDuration maps PT[nH][nM][nS], any subset of the groups being
\* present, to hours * 3600 + minutes * 60 + seconds ("PT1H2M3S" to 3723,
\* "PT45S" to 45, "PT10M" to 600), maps a string in which the pattern is not
\* found to 0, and returns a non-negative integer for every string.
C16_ParseDuration ==
    durResult # <<>> =>
        /\ durResult[1] \in Nat
        /\ \A h \in HourValues : \A mi \in MinuteValues : \A s \in SecondValues :
               durInput = IsoDuration(h, mi, s) =>
                   durResult[1] = GroupSeconds(h, 3600) + GroupSeconds(mi, 60)
                                   + GroupSeconds(s, 1)
        /\ durInput = <<"P", "T", "1", "H", "2", "M", "3", "S">> => durResult[1] = 3723
        /\ durInput = <<"P", "T", "4", "5", "S">> => durResult[1] = 45
        /\ durInput = <<"P", "T", "1", "0", "M">> => durResult[1] = 600
        /\ ~HasPT(durInput) => durResult[1] = 0

\* parseDuration returned 3723 for "PT1H2M3S".
C16_Witness ==
    /\ durInput = IsoDuration(1, 2, 3)
    /\ durInput = <<"P", "T", "1", "H", "2", "M", "3", "S">>
    /\ durResult = <<3723>>

\* The probe videos whose parsed duration is below 180 seconds.
ShortFormIds(videos) ==
    {videos[i].id : i \in {k \in 1..Len(videos) : parseDuration(videos[k].duration) < 180}}

\* C17: every classifier (the channel view's filter and badge, the keyword
\* view's filter, the shorts-only filter of the gateway, the format chart)
\* takes a video for short-form exactly when its parsed duration is below
\* 180 seconds: the video of 179 seconds is short-form, the one of 180 is
\* not, and each classifier's short-form and regular videos are disjoint
\* and together are the collection.
C17_ShortFormThreshold ==
    durVerdicts # <<>> =>
        LET videos == ProbeVideos(durInput)
            short  == ShortFormIds(videos)
            all    == IdsOf(videos)
        IN  /\ 2 \in short /\ 3 \notin short
            /\ durVerdicts[1].chFilterShorts = short
            /\ durVerdicts[1].chFilterVideo = all \ short
            /\ \A i \in 1..Len(videos) :
                   durVerdicts[1].chBadge[i] = IF videos[i].id \in short THEN "Shorts"
                                            ELSE "Video"
            /\ durVerdicts[1].kwShorts = short
            /\ durVerdicts[1].kwVideo = all \ short
            /\ durVerdicts[1].shortsOnly = short
            /\ durVerdicts[1].formatChart.shortsCount = Cardinality(short)
            /\ durVerdicts[1].formatChart.regularCount = Cardinality(all \ short)

\* A video of 180 seconds ("PT180S") classified next to the ones of 179
\* and 180 seconds: only the one of 179 is short-form.
C17_Witness ==
    /\ durInput = IsoDuration(NoGroup, NoGroup, 180)
    /\ durVerdicts # <<>>
    /\ durVerdicts[1].chFilterShorts = {2}
    /\ durVerdicts[1].kwVideo = {1, 3}
    /\ durVerdicts[1].formatChart = [shortsCount |-> 1, regularCount |-> 2]

(***************************************************************************)
(* Properties of downloadCSV                                               *)
(***************************************************************************)

\* How many quote characters s holds.
QuoteCount(s) == Cardinality({i \in 1..Len(s) : s[i] = "\""})

\* The values of all records of data, as strings, record after record.
RECURSIVE ValueStrings(_)
ValueStrings(data) ==
    IF Len(data) = 0 THEN <<>>
    ELSE [j \in 1..Len(data[1]) |-> JsString(data[1][j].value)]
             \o ValueStrings(Tail(data))

RECURSIVE SumOf(_)
SumOf(ns) == IF Len(ns) = 0 THEN 0 ELSE Head(ns) + SumOf(Tail(ns))

\* C18: the file downloadCSV writes for a non-empty list of uniform records
\* starts with the byte-order marker; every value is wrapped in a pair of
\* quotes and each quote inside a value is doubled; a CSV reader reads the
\* rest as a header record of the field names followed by one record per
\* input record whose fields are the values as strings, whatever quotes,
\* commas or line breaks they hold.
C18_CsvRoundTrip ==
    /\ csvFile # <<>> =>
           /\ csvFile[1][1] = Bom
           /\ LET values == ValueStrings(csvData)
              IN  QuoteCount(csvFile[1]) =
                      2 * Len(values)
                          + 2 * SumOf([k \in 1..Len(values) |-> QuoteCount(values[k])])
    /\ csvRead # <<>> =>
           /\ csvRead[1].ok
           /\ Len(csvRead[1].rows) = Len(csvData) + 1
           /\ csvRead[1].rows[1] = [j \in 1..Len(csvData[1]) |-> csvData[1][j].key]
           /\ \A i \in 1..Len(csvData) :
                  i + 1 <= Len(csvRead[1].rows) /\
                  csvRead[1].rows[i + 1] =
                      [j \in 1..Len(csvData[i]) |-> JsString(csvData[i][j].value)]

\* Two records, one titled a"b,c and one titled "x" with a tag holding
\* quotes, were exported and read back: the title a"b,c is the second field
\* of the second record read.
C18_Witness ==
    /\ Len(csvData) = 2 /\ csvRead # <<>>
    /\ csvData[1][2].value = StrV(<<"a", "\"", "b", ",", "c">>)
    /\ csvData[2][2].value = StrV(<<"\"", "x", "\"">>)
    /\ csvData[2][5].value.arr # <<>>
    /\ csvRead[1].ok
    /\ Len(csvRead[1].rows) = 3
    /\ csvRead[1].rows[2][2] = <<"a", "\"", "b", ",", "c">>
    /\ csvRead[1].rows[3][2] = <<"\"", "x", "\"">>

(***************************************************************************)
(* Properties of handleSearch                                              *)
(***************************************************************************)

\* Every data fetch of the invocation got a 2xx reply with a JSON body.
DataFetchSucceeded ==
    /\ remote # <<>>
    /\ \A i \in 1..Len(remote) : remote[i] = "ok"

\* The invocation settled in the view that called it, and its analyze* call
\* had thrown.
AiStepFailed ==
    /\ wfPc = "done"
    /\ ~detached
    /\ aiSettled # <<>>
    /\ Analyze(aiSettled[1]).threw

\* The records handed to the analyze* call are in the state of the mounted
\* view and in the list it renders.
FetchedRecordsShown ==
    /\ aiCalls # <<>>
    /\ activeTab = "CHANNEL_ANALYSIS" =>
           /\ chChannel # "null"
           /\ Len(chVideos) = aiCalls[1].videos
           /\ Len(chDisplay) = Min(Len(chVideos), chDisplayCount)
    /\ activeTab = "KEYWORD_ANALYSIS" =>
           /\ Len(kwVideos) = aiCalls[1].videos
           /\ Len(kwDisplay) = Min(Len(kwVideos), kwDisplayCount)
    /\ activeTab = "OPPORTUNITY_FINDER" =>
           /\ Len(opChannels) = aiCalls[1].videos
           /\ Len(opChannels) > 0

\* C19 as stated: in each of the three workflows, when the AI step fails
\* after a data fetch that succeeded, the fetched records stay in the state
\* and are shown, the report stays null and no failure notice is raised.
C19_AiFailureCaughtIndependently ==
    (AiStepFailed /\ DataFetchSucceeded) =>
        /\ FetchedRecordsShown
        /\ report = <<>>
        /\ alerts = <<>>

\* C20 as stated: when a data fetch of the invocation met a network error
\* or an HTTP error response, a failure notice is raised, no result records
\* are stored in the view that called it and no AI generation call is issued.
C20_FetchFailureStopsWorkflow ==
    (wfPc = "done" /\ ~detached /\ \E i \in 1..Len(remote) : remote[i] \in FailureKinds) =>
        /\ alerts # <<>>
        /\ chVideos = <<>>
        /\ kwVideos = <<>>
        /\ opChannels = <<>>
        /\ aiCalls = <<>>

(***************************************************************************)
(* The stored credential                                                    *)
(***************************************************************************)

\* C25: decryptKey(encryptKey(k)) = k for every credential string k: once
\* both functions returned, what decryptKey returned is the key that
\* encryptKey was given.
C25_KeyRoundTrip ==
    keyPlain # <<>> => keyPlain[1] = keyInput


\* The probe that returned in this step, if one did.
YtReturned     == Len(ytProbed') = Len(ytProbed) + 1
GeminiReturned == Len(geminiProbed') = Len(geminiProbed) + 1
LastOf(log)    == log[Len(log)]

\* The item is written in this step.
Written(name) == localStorage'[name] # <<>> /\ localStorage'[name] # localStorage[name]
\* The item is removed in this step.
Removed(name) == localStorage'[name] = <<>> /\ localStorage[name] # <<>>
\* The mounted application gets another active key in this step.
KeyPropagated == mounted /\ apiKey' # apiKey

\* A key is stored, and the data key made the active key, only by the step
\* in which its probe returned true.
StoredOnlyWhenValid ==
    /\ Written(YtItem) \/ (KeyPropagated /\ apiKey' # <<>>) =>
           /\ YtReturned
           /\ LastOf(ytProbed').isValid
           /\ localStorage'[YtItem] = <<encryptKey(LastOf(ytProbed').key)>>
           /\ apiKey' = LastOf(ytProbed').key
    /\ Written(GeminiItem) =>
           /\ GeminiReturned
           /\ LastOf(geminiProbed').isValid
           /\ localStorage'[GeminiItem] = <<encryptKey(LastOf(geminiProbed').key)>>

\* A probe that returned false leaves storage and the active key alone and
\* sets the status of its section to 'error'.
InvalidChangesNothing ==
    /\ YtReturned /\ ~LastOf(ytProbed').isValid =>
           /\ localStorage' = localStorage
           /\ apiKey' = apiKey
           /\ ytStatus' = "error"
    /\ GeminiReturned /\ ~LastOf(geminiProbed').isValid =>
           /\ localStorage' = localStorage
           /\ apiKey' = apiKey
           /\ geminiStatus' = "error"

\* An item is removed, and the active key emptied, only from confirm-delete;
\* the step that leaves confirm-delete without a stored key leaves the item
\* absent and, for the data key, the active key empty.
DeleteOnlyConfirmed ==
    /\ Removed(YtItem) \/ (KeyPropagated /\ apiKey' = <<>>) => ytConfirmDelete
    /\ Removed(GeminiItem) => geminiConfirmDelete
    /\ ytConfirmDelete /\ ~ytConfirmDelete' /\ ~ytHasStored' =>
           localStorage'[YtItem] = <<>> /\ apiKey' = <<>>
    /\ geminiConfirmDelete /\ ~geminiConfirmDelete' /\ ~geminiHasStored' =>
           localStorage'[GeminiItem] = <<>> /\ apiKey' = apiKey

\* C26: a credential is written to storage, and the data credential made
\* the active key, only after its validation probe returned true; a probe
\* that returned false leaves both unchanged and sets the status 'error';
\* a stored credential is deleted only from the confirm-delete state, which
\* leaves storage without it and the active data key empty.
C26_SaveAfterValidation ==
    [][StoredOnlyWhenValid /\ InvalidChangesNothing /\ DeleteOnlyConfirmed]_vars

\* A data key was stored on a probe that returned true, another key was
\* refused on a probe that returned false, and the stored key was deleted.
C26_Witness ==
    /\ ytProbed = <<[key |-> KeyB, isValid |-> TRUE], [key |-> KeyA, isValid |-> FALSE]>>
    /\ localStorage[YtItem] = <<>>
    /\ apiKey = <<>>
    /\ ~ytConfirmDelete
    /\ ytStatus = "idle"


(***************************************************************************)
(* The credential guards                                                    *)
(***************************************************************************)

\* What a search shows and what it has asked for.
SearchState ==
    <<loading, analyzing, report, chChannel, chVideos, kwVideos, opChannels, hasSearched,
      wfPc, remote, calls, aiCalls, alerts>>

\* C21: while the data credential is empty, a search submitted in any of
\* the three views issues no remote call and leaves loading, results and
\* report as they are; and the mount effect of an application that finds no
\* stored credential opens the credential prompt.
C21_NoSearchWithoutKey ==
    [][/\ requested' # requested /\ apiKey = <<>> => UNCHANGED SearchState
       /\ ~mounted /\ mounted' /\ ~HasItem(YtItem) => isKeyModalOpen']_vars

\* The application started without a stored key, its prompt was closed,
\* and one search with a query was submitted in OpportunityFinder and did
\* nothing.
C21_Witness ==
    /\ mounted
    /\ apiKey = <<>>
    /\ ~isKeyModalOpen
    /\ ~ytHasStored
    /\ requested = [view |-> "OPPORTUNITY_FINDER", q |-> <<"a">>, n |-> 1]
    /\ wfPc = "idle"
    /\ ~loading
    /\ calls = <<>>


(***************************************************************************)
(* The failures of a search                                                 *)
(***************************************************************************)

\* ChannelAnalysis.handleSearch has ended, in the view that called it, on a
\* lookup that returned null: no fetch of the lookup failed, and nothing was
\* fetched after it.
LookupFoundNothing ==
    /\ activeTab = "CHANNEL_ANALYSIS"
    /\ ~detached
    /\ wfPc = "done"
    /\ Len(remote) \in 1..2
    /\ \A i \in 1..Len(remote) : remote[i] \in {"ok", "http error"}

\* C22: when the channel lookup returns no match the workflow shows the
\* not-found notice and no exception is raised: the uploads are not fetched,
\* no AI call is made, the channel is null, the videos are empty, the report
\* is null and loading is false.
C22_ChannelNotFound ==
    LookupFoundNothing =>
        /\ alerts = <<ChNotFoundNotice>>
        /\ errorLog = <<>>
        /\ aiCalls = <<>>
        /\ aiSettled = <<>>
        /\ chChannel = "null"
        /\ chVideos = <<>>
        /\ chDisplay = <<>>
        /\ report = <<>>
        /\ ~loading
        /\ ~analyzing

\* The name search found a channel id whose details came back empty.
C22_Witness ==
    /\ LookupFoundNothing
    /\ remote = <<"ok", "ok">>
    /\ alerts = <<ChNotFoundNotice>>


\* The data fetches one invocation of a view's handleSearch can issue, each
\* once: the lookup's two and the uploads' three in ChannelAnalysis, the two
\* of searchVideosByKeyword, the three of findRisingChannels.  Of an
\* invocation whose view is unmounted only the largest of these is known.
FetchesOfView ==
    IF detached \/ activeTab = "CHANNEL_ANALYSIS" THEN 5
    ELSE IF activeTab = "KEYWORD_ANALYSIS" THEN 2
    ELSE 3

\* The i-th reply of the invocation was a failure of the given kinds.
FailedAt(i, kinds) == i \in 1..Len(remote) /\ remote[i] \in kinds

\* Nothing is asked of a gateway after the reply of one of the kinds.
TerminalFailures(kinds) ==
    \A i \in 1..Len(remote) :
        FailedAt(i, kinds) => i = Len(remote) /\ aiCalls = <<>>

\* C23: no remote operation is retried: within one invocation each remote
\* call is issued at most once, and after a remote call of the invocation
\* failed, with a network error or an HTTP error response, no further remote
\* call is issued by that invocation.
C23_NoRetry ==
    /\ Len(remote) <= FetchesOfView
    /\ Len(aiCalls) <= 1
    /\ aiSettled # <<>> => wfPc = "done"
    /\ TerminalFailures(FailureKinds)


(***************************************************************************)
(* Overlapping searches                                                     *)
(***************************************************************************)

\* The invocations that the view which is mounted has called, and those of
\* them that reached their finally block, in that order.
OfMountedView == {i \in 1..Len(opInvocations) : ~opInvocations[i].detached}
FinishedOfView == SelectSeq(opFinished, LAMBDA i : i \in OfMountedView)

\* Invocation i got the results of its findRisingChannels when that of every
\* other invocation of the mounted view had settled.
RespondedLast(i) ==
    /\ opInvocations[i].fetch = "resolved"
    /\ OfMountedView \ {i} \subseteq opInvocations[i].after

\* Every invocation of the mounted view has run to its end, and the one
\* whose response arrived last was called before another one that got a
\* response too.
OlderRespondedLast ==
    /\ \A i \in OfMountedView : opInvocations[i].pc = "done"
    /\ \E i \in OfMountedView :
           /\ RespondedLast(i)
           /\ \E j \in OfMountedView : j > i /\ opInvocations[j].fetch = "resolved"

\* The invocation whose response arrived last.
Stale == CHOOSE i \in OfMountedView : RespondedLast(i)

\* The report invocation i leaves when it runs alone.
ReportOf(i) ==
    IF opInvocations[i].ai = "report"
    THEN <<OpportunityReport(opInvocations[i].topic, opInvocations[i].results)>>
    ELSE <<>>

\* The invocations whose AI call resolved, and so called setReport, after
\* the latest invocation had reset the report, in that order.
Latest == CHOOSE n \in OfMountedView : \A j \in OfMountedView : j <= n
ReportSetters ==
    SelectSeq(FinishedOfView,
              LAMBDA i : /\ i \notin opInvocations[Latest].began
                         /\ opInvocations[i].ai \in {"report", "null"})

\* C24 as stated: a second search can start while an earlier one is in
\* flight, and when the earlier search's response arrives after the later
\* one's, the final results and report are those of the older query.
C24_StaleSearchWins ==
    OlderRespondedLast =>
        /\ opChannels = opInvocations[Stale].results
        /\ report = ReportOf(Stale)

\* C24 as amended: when the earlier search's response arrives after the
\* later one's, the final results are those of the older query, and the
\* final report is that of the search whose AI call resolved last, null
\* when no AI call resolved.
C24_StaleSearchOverwrites ==
    OlderRespondedLast =>
        /\ opChannels = opInvocations[Stale].results
        /\ ~loading
        /\ report = IF ReportSetters = <<>> THEN <<>>
                    ELSE ReportOf(ReportSetters[Len(ReportSetters)])

\* Topic "b" was searched while the search for "a" was in flight and got its
\* response first; the response for "a" arrived while the AI call for "b"
\* was pending, and the AI call for "a" resolved before it: the channels
\* shown are those found for "a" and the report is the one for "b".
C24_Witness ==
    /\ OlderRespondedLast
    /\ Len(opInvocations) = 2
    /\ opInvocations[1].topic = "a"
    /\ opInvocations[2].topic = "b"
    /\ opInvocations[1].ai = "report"
    /\ opInvocations[2].ai = "report"
    /\ opFinished = <<1, 2>>
    /\ opChannels = opInvocations[1].results
    /\ opChannels # opInvocations[2].results
    /\ report = <<OpportunityReport("b", opInvocations[2].results)>>
    /\ opInvocations[1].remote = <<"ok", "ok", "ok">>


(***************************************************************************)
(* Properties of the video summaries.                                       *)
(***************************************************************************)

\* C27: once the summary call for a video has failed at the gateway and no
\* call for it is awaited, no summary is stored for that video and its
\* loading flag is false, so that a later request calls the gateway again.
C27_FailedSummaryNotStored ==
    \A id \in SummaryIds :
        (summaryOutcome[id].call = "remote error" /\ summaryInFlight[id] = 0)
            => (videoSummaries[id] = <<>> /\ ~loadingSummaries[id])

\* A summary call of the mounted view was issued for video id in this step,
\* one completed, one that an unmounted view awaited completed; the
\* handler's state for the video changed.
SummaryIssued(id) == summaryInFlight'[id] > summaryInFlight[id]
SummaryCompleted(id) == activeTab' = activeTab /\ summaryInFlight'[id] < summaryInFlight[id]
LeftSummaryCompleted(id) == summaryLeft'[id] < summaryLeft[id]
SummaryTouched(id) ==
    \/ summaryInFlight'[id] # summaryInFlight[id]
    \/ loadingSummaries'[id] # loadingSummaries[id]

\* C29 as stated: a summary call is issued for a video only when none is
\* stored and none is loading for it; at most one call per video is in
\* flight at any time; a request or completion for one video leaves the
\* other videos' entries alone; and when a call completes the video's
\* loading flag is false.
C29_OneSummaryCallPerVideo ==
    [][\A id \in SummaryIds :
          /\ SummaryIssued(id) => (videoSummaries[id] = <<>> /\ ~loadingSummaries[id])
          /\ summaryInFlight'[id] + summaryLeft'[id] <= 1
          /\ (SummaryCompleted(id) \/ LeftSummaryCompleted(id)) => ~loadingSummaries'[id]
          /\ (SummaryIssued(id) \/ SummaryCompleted(id)) =>
                 \A other \in SummaryIds \ {id} :
                     /\ ~SummaryTouched(other)
                     /\ videoSummaries'[other] = videoSummaries[other]]_vars

\* C29 as it holds: the calls counted are those of the view that is
\* mounted.  At most one call per video is awaited by it, beside the calls
\* that views unmounted since have left in flight, and when one of its calls
\* completes the video's loading flag is false.
C29_OneSummaryCallPerView ==
    [][\A id \in SummaryIds :
          /\ SummaryIssued(id) => (videoSummaries[id] = <<>> /\ ~loadingSummaries[id])
          /\ summaryInFlight'[id] <= 1
          /\ SummaryCompleted(id) => ~loadingSummaries'[id]
          /\ LeftSummaryCompleted(id) =>
                 /\ loadingSummaries'[id] = loadingSummaries[id]
                 /\ videoSummaries'[id] = videoSummaries[id]
          /\ (SummaryIssued(id) \/ SummaryCompleted(id) \/ LeftSummaryCompleted(id)) =>
                 \A other \in SummaryIds \ {id} :
                     /\ ~SummaryTouched(other)
                     /\ videoSummaries'[other] = videoSummaries[other]]_vars

\* A summary of one video is stored, and a call for the other is awaited
\* by the mounted view beside the one that the view shown before had issued
\* for the same video.
C29_Witness ==
    /\ videoSummaries[101] = <<"summary">>
    /\ ~loadingSummaries[101]
    /\ summaryInFlight[102] = 1
    /\ summaryLeft[102] = 1
    /\ loadingSummaries[102]


(***************************************************************************)
(* Termination of the three handleSearch.                                   *)
(***************************************************************************)

\* The handleSearch has run to its end with both flags cleared.
SearchFinished == wfPc = "done" /\ ~loading /\ ~analyzing

\* The handleSearch has run to its end after its view was unmounted: the
\* flags it cleared are no state of any view.
SearchFinishedUnmounted == wfPc = "done" /\ detached

\* C28: when every remote call eventually returns or rejects, a started
\* handleSearch of any of the three views eventually runs to its end,
\* whatever its fetches and its AI call did, and leaves loading and analyzing
\* false in its view when that is still mounted; and for as long as it is in
\* flight in its view, no other invocation having been in flight beside it,
\* loading is true.
C28_SearchTerminates ==
    /\ []((SearchInFlight /\ ~detached /\ overtaken = <<>>) => loading)
    /\ SearchInFlight ~> (SearchFinished \/ SearchFinishedUnmounted)

\* A search of each kind of ending has finished: here the opportunity
\* search whose AI call failed.
C28_Witness ==
    /\ activeTab = "OPPORTUNITY_FINDER"
    /\ ~detached
    /\ SearchFinished
    /\ aiSettled \in {<<"remote error">>, <<"no key">>, <<"unparseable">>}
    /\ alerts = <<OpFailureNotice>>


(***************************************************************************)
(* Properties of the navigation to the channel analysis.                    *)
(***************************************************************************)

\* onAnalyzeChannel was called in this step; the name it was called with.
Navigated == Len(navigated') = Len(navigated) + 1
NavigatedName == navigated'[Len(navigated')]

\* One channel search for the name was started in this step.
OneSearchStartedFor(name) ==
    /\ requested' = Requested("CHANNEL_ANALYSIS", name)
    /\ wfPc' = "searchChannelByName"
    /\ loading'
    /\ searchQuery' = <<name>>

\* No handleSearch began its fetches in this step: none is in flight but
\* what a view that is unmounted had called.
NoSearchStarted ==
    /\ wfPc' \in {"idle", "done"} \/ (detached' /\ wfPc' = wfPc)
    /\ ~loading'
    /\ searchQuery' = <<>>

\* A tab was chosen in the navigation: that starts no search.
TabSwitchSearchesNothing ==
    (navigated' = navigated /\ activeTab' # activeTab)
        => (requested' = requested /\ NoSearchStarted)

\* C30: a call of onAnalyzeChannel(name) makes the channel analysis the
\* active tab, starts exactly one channel search for the name and leaves the
\* pending request null; choosing a tab afterwards starts no search.
C30_NavigateStartsSearch ==
    [][/\ Navigated =>
              /\ activeTab' = "CHANNEL_ANALYSIS"
              /\ OneSearchStartedFor(NavigatedName)
              /\ autoSearchChannel' = <<>>
       /\ TabSwitchSearchesNothing]_vars

\* C30 as it holds: the search is started when a data key is active and the
\* name is not blank, and otherwise none is; the pending request is left
\* null unless the name is the empty string.
C30_NavigateSearchesWithKey ==
    [][/\ Navigated =>
              /\ activeTab' = "CHANNEL_ANALYSIS"
              /\ IF apiKey # <<>> /\ ~IsBlankText(NavigatedName)
                 THEN OneSearchStartedFor(NavigatedName)
                 ELSE NoSearchStarted
              /\ NavigatedName # <<>> => autoSearchChannel' = <<>>
       /\ TabSwitchSearchesNothing]_vars

\* onAnalyzeChannel was called twice with the same name and the second call
\* has its channel search in flight.
C30_Witness ==
    /\ navigated = <<<<"a">>, <<"a">>>>
    /\ activeTab = "CHANNEL_ANALYSIS"
    /\ wfPc = "searchChannelByName"
    /\ searchQuery = <<<<"a">>>>
    /\ autoSearchChannel = <<>>

=============================================================================
